---- MODULE Spec2Model ----
(***************************************************************************)
(* Session supervisor of the zuria_wa gateway (src/src/index.ts).          *)
(*                                                                         *)
(* The repository keeps several revisions of the gateway.  Two of them are *)
(* modelled, selected by the variable rev, which never changes:            *)
(*   "A"  src/src/index.ts lines 1-983     (buildSessionSocket,            *)
(*        ensureSessionLoaded, restartSession(id, {resetAuth}), webhook    *)
(*        registration route, header = the secret itself)                  *)
(*   "C"  src/src/index.ts lines 1085-1931 (startSession publishing        *)
(*        session.created, restartSession(id), logout route, HMAC header)  *)
(*                                                                         *)
(* Every async function is cut at its awaits: the code between two awaits  *)
(* is one atomic step of the single-threaded event loop, and a suspended   *)
(* invocation is an element of the bag tasks.                              *)
(***************************************************************************)
EXTENDS Integers, Sequences, FiniteSets, Bags, TLC

\* ---- bounds of the model ------------------------------------------------
MaxSocks == 3   \* handles built in a run
MaxObjs == 2    \* SessionState objects allocated in a run
MaxPosts == 2   \* calls of sendWebhookEvent in a run
MaxTasks == 2   \* async invocations suspended at the same time

\* ---- program constants --------------------------------------------------
\* the session ids a run sees.  Nothing in the gateway is shared between two
\* sessions but the directory, which is keyed by id, so one id is followed.
Ids == {"s1"}
Revisions == {"A", "C"}
restartRequired == 515
loggedOut == 401
connectionClosed == 428
Codes == {restartRequired, loggedOut, connectionClosed}
WEBHOOK_SECRET == "boot"
\* crypto.randomBytes(32).toString('hex'): a fresh secret for every session
\* object, different from the bootstrap secret
randomBytes(o) == <<"k1", "k2", "k3", "k4", "k5">>[o]

VARIABLES
  rev,       \* revision of the gateway that is running
  hookSet,   \* revision C: SUPABASE_WEBHOOK_URL is configured
  sessions,  \* the session directory: id -> index into objs, 0 = absent
  objs,      \* heap of SessionState objects
  socks,     \* every transport handle built so far
  creds,     \* credential store: id -> "absent" | "empty" | "paired"
  tasks,     \* bag of suspended async invocations
  posts,     \* id -> the calls of sendWebhookEvent made for that id, in order
  used,      \* ids already handed out by uuid()
  logoutResult, \* history, read by properties only: id -> what s.sock.logout()
               \* did in the logout of id that has completed ("" = none has)
  apiKeySet, \* API_KEY is configured
  replies,   \* the HTTP requests followed, in arrival order, with their answers
  wire,      \* the sendMessage calls made on transport handles, in call order
  now,       \* the clock, in minutes
  page,      \* the answer of the last GET /sessions/:id/chats
  inbox,     \* the messages the transport has delivered, in delivery order
  walk       \* a client paginating GET /sessions/:id/chats: its limit, the
             \* cursor it sends next, the chats it has been given so far

\* the session supervisor, and the request surface around it
supervisor == <<rev, hookSet, sessions, objs, socks, creds, tasks, posts, used, logoutResult>>
surface == <<apiKeySet, replies, wire, now, page, inbox, walk>>
vars == <<rev, hookSet, sessions, objs, socks, creds, tasks, posts, used, logoutResult,
          apiKeySet, replies, wire, now, page, inbox, walk>>

\* no pagination under way: the client has asked for nothing yet
NoWalk == [limit |-> [k |-> "absent"], cursor |-> [k |-> "absent"], seen |-> <<>>,
           pages |-> 0, done |-> FALSE]

\* ---- the transport handle -----------------------------------------------
\* makeWASocket(...) : a fresh handle, owned by SessionState o
\*   open      built and its socket not closed by the gateway
\*   listening the gateway's listeners are attached (attachSocketHandlers)
\*   phase     what the transport has reported on it: "init", "open", "closed"
\*   code      the status code of its "close" report, 0 before
makeWASocket(id, o) ==
  [id |-> id, obj |-> o, open |-> TRUE, listening |-> TRUE, phase |-> "init", code |-> 0]

\* removeAllListeners() and ws.close() on handle h; h = 0 is `undefined`
Teardown(ss, h) ==
  IF h = 0 THEN ss ELSE [ss EXCEPT ![h].open = FALSE, ![h].listening = FALSE]

\* handles built and not yet torn down for session id
Live(id) == {h \in 1..Len(socks) : socks[h].id = id /\ socks[h].open}

\* ---- the webhook relay --------------------------------------------------
\* Strings on the wire are symbolic terms.  JSON.stringify(body) is the term
\* of the body's fields; a header value is either the digest of a key and a
\* text (kind "hmac") or a string sent as it is (kind "raw").
JSONstringify(body) == <<"json", body.sessionId, body.event, body.data>>
Hmac(secret, raw) == [kind |-> "hmac", key |-> secret, over |-> raw]
Raw(str) == [kind |-> "raw", key |-> str, over |-> <<>>]
signBodyHmac(secret, bodyObj) ==
  [raw |-> JSONstringify(bodyObj), sig |-> Hmac(secret, JSONstringify(bodyObj))]

\* which secret signs an event (revision C, index.ts:1305-1308)
secretToUseMutAlwaysSession(s, event) ==
  IF s.webhookSecret # "" THEN s.webhookSecret ELSE WEBHOOK_SECRET
secretToUse(s, event) ==
  IF event = "session.created" THEN WEBHOOK_SECRET
  ELSE IF s.webhookSecret # "" THEN s.webhookSecret ELSE WEBHOOK_SECRET

\* payload of an event: the reason of a disconnect, the secret a
\* session.created event delivers
Data(reason, secret) == [reason |-> reason, sessionSecret |-> secret]

\* one call of sendWebhookEvent, as a one-element log: the POST it issues
\* (sent = TRUE), or the event it drops with a warning (sent = FALSE)
Dropped(event, data) ==
  <<[event |-> event, data |-> data, sent |-> FALSE, hdr |-> Raw(""), body |-> <<>>]>>

webhookPostC(s, event, data) ==
  IF ~hookSet THEN Dropped(event, data)
  ELSE LET body == [sessionId |-> s.id, event |-> event, data |-> data]
           sg == signBodyHmac(secretToUse(s, event), body)
       IN <<[event |-> event, data |-> data, sent |-> TRUE, hdr |-> sg.sig, body |-> sg.raw]>>

webhookPostA(s, event, data) ==
  IF ~s.webhookUrl THEN Dropped(event, data)
  ELSE LET body == [sessionId |-> s.id, event |-> event, data |-> data]
           signature == IF s.webhookSecret # "" THEN s.webhookSecret ELSE WEBHOOK_SECRET
       IN <<[event |-> event, data |-> data, sent |-> TRUE, hdr |-> Raw(signature), body |-> JSONstringify(body)]>>

sendWebhookEvent(s, event, data) ==
  IF rev = "C" THEN webhookPostC(s, event, data) ELSE webhookPostA(s, event, data)

\* room left in the bounded logs and heaps
RECURSIVE SumLen(_, _)
SumLen(f, S) == IF S = {} THEN 0 ELSE LET i == CHOOSE j \in S : TRUE IN Len(f[i]) + SumLen(f, S \ {i})
CanPost(id) == SumLen(posts, Ids) < MaxPosts
CanBuild == Len(socks) < MaxSocks
CanAllocate == Len(objs) < MaxObjs
CanSuspend == BagCardinality(tasks) < MaxTasks

Task(k, id, o, x) == [k |-> k, id |-> id, o |-> o, x |-> x]
Suspend(t) == tasks (+) SetToBag({t})
Resume(t) == tasks (-) SetToBag({t})

Init ==
  /\ rev \in Revisions
  /\ hookSet \in BOOLEAN
  /\ (rev = "A" => hookSet = FALSE)
  /\ sessions = [i \in Ids |-> 0]
  /\ objs = <<>>
  /\ socks = <<>>
  /\ creds = [i \in Ids |-> "absent"]
  /\ tasks = EmptyBag
  /\ posts = [i \in Ids |-> <<>>]
  /\ used = {}
  /\ logoutResult = [i \in Ids |-> ""]
  /\ apiKeySet = FALSE
  /\ replies = <<>>
  /\ wire = <<>>
  /\ now = 0
  /\ page = <<>>
  /\ inbox = <<>>
  /\ walk = NoWalk

\* fs.mkdirSync(AUTH_DIR/id, {recursive: true})
mkdirSync(c, id) == IF c[id] = "absent" THEN [c EXCEPT ![id] = "empty"] ELSE c
\* fs.rmSync(AUTH_DIR/id, {recursive: true, force: true})
rmSyncMutKeeps(c, id) == c
rmSync(c, id) == [c EXCEPT ![id] = "absent"]

\* ---- session lifecycle ---------------------------------------------------
\* a fresh SessionState object (index.ts:486-496, 1564-1578)
NewSession(id, h, url, secret) ==
  [id |-> id, sock |-> h, connected |-> FALSE, qr |-> FALSE, qr_text |-> FALSE,
   webhookUrl |-> url, webhookSecret |-> secret, meId |-> <<>>, phoneNumber |-> <<>>,
   chats |-> <<>>]

Publish(id, entry) == [posts EXCEPT ![id] = @ \o entry]

\* POST /sessions: uuid(), then startSession up to its first await
Create(id) ==
  /\ id \notin used
  /\ CanSuspend
  /\ used' = used \cup {id}
  /\ creds' = mkdirSync(creds, id)
  /\ tasks' = Suspend(Task(IF rev = "C" THEN "start" ELSE "build", id, 0, "none"))
  /\ UNCHANGED <<rev, hookSet, sessions, objs, socks, posts, logoutResult>>

\* revision C, startSession after its awaits: build the handle, register the
\* session, attach the listeners, publish session.created
StartResume(id) ==
  /\ rev = "C"
  /\ BagIn(Task("start", id, 0, "none"), tasks)
  /\ CanBuild /\ CanAllocate /\ CanPost(id)
  /\ LET o == Len(objs) + 1
         h == Len(socks) + 1
         sessionSecret == randomBytes(o)
         s == NewSession(id, h, hookSet, sessionSecret)
     IN /\ objs' = Append(objs, s)
        /\ socks' = Append(socks, makeWASocket(id, o))
        /\ sessions' = [sessions EXCEPT ![id] = o]
        /\ posts' = Publish(id, sendWebhookEvent(s, "session.created", Data("", sessionSecret)))
  /\ tasks' = Resume(Task("start", id, 0, "none"))
  /\ creds' = mkdirSync(creds, id)
  /\ UNCHANGED <<rev, hookSet, used, logoutResult>>

\* revision A, buildSessionSocket up to its first await
buildSessionSocket(id, c, x) ==
  /\ CanSuspend
  /\ creds' = mkdirSync(c, id)
  /\ tasks' = Suspend(Task("build", id, 0, x))
  /\ used' = used \cup {id}

\* revision A, buildSessionSocket after its awaits: a NEW SessionState and a
\* new handle replace whatever the directory held; when the caller is the
\* webhook route (x # "none") it then stores the url and the secret
BuildInstall(id, url, secret) ==
  /\ CanBuild /\ CanAllocate
  /\ LET o == Len(objs) + 1
         h == Len(socks) + 1
     IN /\ objs' = Append(objs, NewSession(id, h, url, secret))
        /\ socks' = Append(socks, makeWASocket(id, o))
        /\ sessions' = [sessions EXCEPT ![id] = o]
  /\ creds' = mkdirSync(creds, id)

BuildResume(id, x) ==
  /\ rev = "A"
  /\ BagIn(Task("build", id, 0, x), tasks)
  /\ BuildInstall(id, x # "none", IF x \in {"none", "url"} THEN "" ELSE x)
  /\ tasks' = Resume(Task("build", id, 0, x))
  /\ UNCHANGED <<rev, hookSet, posts, used, logoutResult>>

\* revision A, ensureSessionLoaded from GET /sessions/:id and the other
\* session-addressed routes: nothing to do when the directory holds a session
\* with a handle, otherwise a build for whatever id the request names
Loaded(id) == sessions[id] # 0 /\ objs[sessions[id]].sock # 0
ensureSessionLoaded(id) ==
  /\ rev = "A"
  /\ ~Loaded(id)
  /\ buildSessionSocket(id, creds, "none")
  /\ UNCHANGED <<rev, hookSet, sessions, objs, socks, posts, logoutResult>>

\* revision A, restartSession: "si on veut un tout nouveau login => effacer
\* les creds" (index.ts:546-554)
resetAuthDirMutAlways(c, id, resetAuth) == rmSync(c, id)
resetAuthDir(c, id, resetAuth) == IF resetAuth THEN rmSync(c, id) ELSE c

\* restartSession up to its first await.  ss is the handle table the caller
\* has reached; origin tells who called: "http" or "auto".
\*   revision C (index.ts:1525-1538): return when the directory has no such
\*     session; tear down s.sock, clear the fields, then await the credentials
\*   revision A (index.ts:531-558): tear down the handle of whatever session
\*     the directory holds, delete the credentials when resetAuth, then build
restartSession(id, ss, resetAuth, origin) ==
  IF rev = "C"
  THEN IF sessions[id] = 0
       THEN /\ socks' = ss
            /\ UNCHANGED <<objs, tasks, creds, used>>
       ELSE LET o == sessions[id]
            IN /\ CanSuspend
               /\ socks' = Teardown(ss, objs[o].sock)
               /\ objs' = [objs EXCEPT ![o].sock = 0, ![o].connected = FALSE,
                                        ![o].qr = FALSE, ![o].qr_text = FALSE]
               /\ tasks' = Suspend(Task("restart", id, o, origin))
               /\ UNCHANGED <<creds, used>>
  ELSE LET old == sessions[id]
       IN /\ socks' = Teardown(ss, IF old # 0 THEN objs[old].sock ELSE 0)
          /\ buildSessionSocket(id, resetAuthDir(creds, id, resetAuth), "none")
          /\ UNCHANGED objs

\* POST /sessions/:id/restart
\*   revision C (index.ts:1737-1743): 404 for an unknown id, else restartSession(id)
\*   revision A (index.ts:727-747): restartSession(id, {resetAuth: true}) for any id
HttpRestart(id) ==
  /\ rev = "C" => sessions[id] # 0
  /\ restartSession(id, socks, rev = "A", "http")
  /\ UNCHANGED <<rev, hookSet, sessions, posts, logoutResult>>

\* revision C, restartSession after its awaits: build a handle, store it in
\* s.sock, attach the listeners (index.ts:1540-1552)
RestartResumeMutPublishesCreated(o, origin) ==
  /\ rev = "C"
  /\ o \in 1..Len(objs)
  /\ BagIn(Task("restart", objs[o].id, o, origin), tasks)
  /\ CanBuild /\ CanPost(objs[o].id)
  /\ LET h == Len(socks) + 1
     IN /\ socks' = Append(socks, makeWASocket(objs[o].id, o))
        /\ objs' = [objs EXCEPT ![o].sock = h]
  /\ posts' = Publish(objs[o].id, sendWebhookEvent(objs[o], "session.created",
                                                     Data("", objs[o].webhookSecret)))
  /\ tasks' = Resume(Task("restart", objs[o].id, o, origin))
  /\ creds' = mkdirSync(creds, objs[o].id)
  /\ UNCHANGED <<rev, hookSet, sessions, used, logoutResult>>
RestartResume(o, origin) ==
  /\ rev = "C"
  /\ o \in 1..Len(objs)
  /\ BagIn(Task("restart", objs[o].id, o, origin), tasks)
  /\ CanBuild
  /\ LET h == Len(socks) + 1
     IN /\ socks' = Append(socks, makeWASocket(objs[o].id, o))
        /\ objs' = [objs EXCEPT ![o].sock = h]
  /\ tasks' = Resume(Task("restart", objs[o].id, o, origin))
  /\ creds' = mkdirSync(creds, objs[o].id)
  /\ UNCHANGED <<rev, hookSet, sessions, posts, used, logoutResult>>

\* useMultiFileAuthState or fetchLatestBaileysVersion rejects: the suspended
\* startSession, buildSessionSocket or restartSession ends there
AwaitFails(t) ==
  /\ BagIn(t, tasks)
  /\ t.k \in {"start", "build", "restart"}
  /\ tasks' = Resume(t)
  /\ UNCHANGED <<rev, hookSet, sessions, objs, socks, creds, posts, used, logoutResult>>

\* ---- transport events ----------------------------------------------------
\* The transport calls the listeners attachSocketHandlers registered, for a
\* handle that still has them.  A handle reports its pairing challenges and
\* credential updates, then at most one "open", then at most one "close".
isRestartRequiredMutNever(code) == FALSE
isRestartRequiredMutAlsoLoggedOut(code) == code = 515 \/ code = restartRequired \/ code = loggedOut
isRestartRequired(code) == code = 515 \/ code = restartRequired

\* 'creds.update' -> saveCreds: the credentials of the session are written
onCredsUpdate(h) ==
  /\ h \in 1..Len(socks)
  /\ socks[h].listening /\ socks[h].phase # "closed"
  /\ creds[socks[h].id] = "empty"
  /\ creds' = [creds EXCEPT ![socks[h].id] = "paired"]
  /\ UNCHANGED <<rev, hookSet, sessions, objs, socks, tasks, posts, used, logoutResult>>

\* A jid is the tuple of its characters; <<>> is null (and the empty string).
\* extractPhoneFromJid: jid.match(/^(\d{5,20})/), the first group or null
MinDigits == 5
MaxDigits == 20
Digit == {"0", "1", "2", "3", "4", "5", "6", "7", "8", "9"}
\* length of the run of digits jid starts with
LeadingDigits(jid) ==
  IF \A i \in 1..Len(jid) : jid[i] \in Digit THEN Len(jid)
  ELSE (CHOOSE i \in 1..Len(jid) : jid[i] \notin Digit /\ \A j \in 1..(i - 1) : jid[j] \in Digit) - 1
extractPhoneFromJid(jid) ==
  IF jid = <<>> THEN <<>>
  ELSE IF LeadingDigits(jid) < MinDigits THEN <<>>
  ELSE SubSeq(jid, 1, IF LeadingDigits(jid) < MaxDigits THEN LeadingDigits(jid) ELSE MaxDigits)

\* onConnectionUpdate, u.connection = 'open'; me is u.me?.id, <<>> without one
onOpen(h, me) ==
  /\ h \in 1..Len(socks)
  /\ socks[h].listening /\ socks[h].phase = "init"
  /\ CanPost(socks[h].id)
  /\ LET o == socks[h].obj
         s == [objs[o] EXCEPT !.connected = TRUE, !.qr = FALSE, !.qr_text = FALSE,
                              !.meId = IF me # <<>> THEN me ELSE @,
                              !.phoneNumber = IF me # <<>> THEN extractPhoneFromJid(me) ELSE @]
     IN /\ objs' = [objs EXCEPT ![o] = s]
        /\ posts' = Publish(s.id, sendWebhookEvent(s, "session.connected", Data("", "")))
  /\ socks' = [socks EXCEPT ![h].phase = "open"]
  /\ UNCHANGED <<rev, hookSet, sessions, creds, tasks, used, logoutResult>>

\* onConnectionUpdate, u.connection = 'close' with the status code of
\* lastDisconnect.error (index.ts:369-406, 1440-1471)
onClose(h, code) ==
  /\ h \in 1..Len(socks)
  /\ socks[h].listening /\ socks[h].phase # "closed"
  /\ LET o == socks[h].obj
         id == socks[h].id
         closed == [socks EXCEPT ![h].phase = "closed", ![h].code = code]
     IN IF isRestartRequired(code)
           THEN /\ restartSession(id, closed, FALSE, "auto")
                /\ UNCHANGED posts
           ELSE IF code = loggedOut
           THEN /\ CanPost(id)
                /\ objs' = [objs EXCEPT ![o].connected = FALSE]
                /\ posts' = Publish(id, sendWebhookEvent(objs[o], "session.disconnected",
                                                         Data("loggedOut", "")))
                /\ socks' = closed
                /\ UNCHANGED <<tasks, creds, used>>
           ELSE /\ objs' = [objs EXCEPT ![o].connected = FALSE]
                /\ socks' = closed
                /\ UNCHANGED <<tasks, creds, posts, used>>
  /\ UNCHANGED <<rev, hookSet, sessions, logoutResult>>

\* ---- logout (revision C, index.ts:1879-1910) ------------------------------
\* up to the first await: 404 for an unknown id; with a handle, call its
\* logout() and wait; without one, go on to the webhook at once
LogoutPublish(o) ==
  Publish(objs[o].id, sendWebhookEvent(objs[o], "session.disconnected", Data("manual_logout", "")))

Logout(id) ==
  /\ rev = "C"
  /\ sessions[id] # 0
  /\ CanSuspend
  /\ LET o == sessions[id]
     IN /\ IF objs[o].sock # 0
           THEN /\ tasks' = Suspend(Task("logoutCall", id, o, "none"))
                /\ UNCHANGED posts
           ELSE /\ CanPost(id)
                /\ posts' = LogoutPublish(o)
                /\ tasks' = Suspend(Task("logoutHook", id, o, "noCall"))
  /\ UNCHANGED <<rev, hookSet, sessions, objs, socks, creds, used, logoutResult>>

\* s.sock.logout() has returned or thrown (outcome); either way publish
\* session.disconnected and wait for the POST
LogoutCallResume(o, outcome) ==
  /\ o \in 1..Len(objs)
  /\ BagIn(Task("logoutCall", objs[o].id, o, "none"), tasks)
  /\ CanPost(objs[o].id)
  /\ posts' = LogoutPublish(o)
  /\ tasks' = Resume(Task("logoutCall", objs[o].id, o, "none")) (+) SetToBag({Task("logoutHook", objs[o].id, o, outcome)})
  /\ UNCHANGED <<rev, hookSet, sessions, objs, socks, creds, used, logoutResult>>

\* after the webhook: tear down s.sock, delete the credentials, drop the
\* session from the directory
LogoutFinish(o, outcome) ==
  /\ o \in 1..Len(objs)
  /\ BagIn(Task("logoutHook", objs[o].id, o, outcome), tasks)
  /\ socks' = Teardown(socks, objs[o].sock)
  /\ objs' = [objs EXCEPT ![o].sock = 0, ![o].connected = FALSE]
  /\ creds' = rmSync(creds, objs[o].id)
  /\ sessions' = [sessions EXCEPT ![objs[o].id] = 0]
  /\ tasks' = Resume(Task("logoutHook", objs[o].id, o, outcome))
  /\ logoutResult' = [logoutResult EXCEPT ![objs[o].id] = outcome]
  /\ UNCHANGED <<rev, hookSet, posts, used>>

\* ---- webhook registration (revision A, index.ts:751-771) ------------------
\* POST /sessions/:id/webhook {url, secret}: ensureSessionLoaded(id), then
\* store the url, and the secret when one is given
RegisterWebhook(id, secret) ==
  /\ rev = "A"
  /\ IF Loaded(id)
     THEN /\ objs' = [objs EXCEPT ![sessions[id]].webhookUrl = TRUE,
                                  ![sessions[id]].webhookSecret = IF secret # "" THEN secret ELSE @]
          /\ UNCHANGED <<creds, tasks, used>>
     ELSE /\ buildSessionSocket(id, creds, IF secret # "" THEN secret ELSE "url")
          /\ UNCHANGED objs
  /\ UNCHANGED <<rev, hookSet, sessions, socks, posts, logoutResult>>

\* the secret a webhook registration carries ("" would be a request without
\* one, which leaves the session on WEBHOOK_SECRET)
RegisteredSecrets == {"reg"}
LogoutOutcomes == {"logoutOk", "logoutThrew"}
TaskSet == {t \in DOMAIN tasks : tasks[t] > 0}

Next ==
  \/ \E id \in Ids : Create(id) /\ UNCHANGED surface
  \/ \E id \in Ids : StartResume(id) /\ UNCHANGED surface
  \/ \E id \in Ids, x \in {"none", "url"} \cup RegisteredSecrets : BuildResume(id, x) /\ UNCHANGED surface
  \/ \E id \in Ids : ensureSessionLoaded(id) /\ UNCHANGED surface
  \/ \E id \in Ids : HttpRestart(id) /\ UNCHANGED surface
  \/ \E o \in 1..Len(objs), origin \in {"http", "auto"} : RestartResume(o, origin) /\ UNCHANGED surface
  \/ \E t \in TaskSet : AwaitFails(t) /\ UNCHANGED surface
  \/ \E h \in 1..Len(socks) : onCredsUpdate(h) /\ UNCHANGED surface
  \/ \E h \in 1..Len(socks) : onOpen(h, <<>>) /\ UNCHANGED surface
  \/ \E h \in 1..Len(socks), code \in Codes : onClose(h, code) /\ UNCHANGED surface
  \/ \E id \in Ids : Logout(id) /\ UNCHANGED surface
  \/ \E o \in 1..Len(objs), outcome \in LogoutOutcomes : LogoutCallResume(o, outcome) /\ UNCHANGED surface
  \/ \E o \in 1..Len(objs), outcome \in LogoutOutcomes \cup {"noCall"} : LogoutFinish(o, outcome) /\ UNCHANGED surface
  \/ \E id \in Ids, secret \in RegisteredSecrets : RegisterWebhook(id, secret) /\ UNCHANGED surface

Spec == Init /\ [][Next]_vars

TypeOK ==
  /\ rev \in Revisions
  /\ Len(socks) <= MaxSocks
  /\ BagCardinality(tasks) <= MaxTasks

\* ---- the request surface --------------------------------------------------
\* The HTTP routes, with the answer each request gets.  A request is followed
\* from its arrival: replies[n] is the n-th request, code 0 while its handler
\* is suspended.  Requests are numbered in arrival order.
MaxRequests == 2   \* requests followed in a run
CanRequest == Len(replies) < MaxRequests

\* the tag a suspended buildSessionSocket carries for request n, its caller
ReqTag(n) == <<"req1", "req2", "req3", "req4">>[n]

\* the self ids an 'open' report may carry
Digits(n) == [i \in 1..n |-> "1"]
Digit2(d) == <<"0", "1", "2", "3", "4", "5", "6", "7", "8", "9">>[d + 1]
SelfIds ==
  { <<"1", "2", "3", "4", "@", "d">>,
    Digits(11) \o <<":", "2", "9", "@", "s">>,
    Digits(21) \o <<"@", "s">> }

\* if (API_KEY) { hdr = req.headers['x-api-key']; if (!hdr || hdr !== API_KEY) 401 }
\* key: the request carries the configured key
unauthorized(key) == apiKeySet /\ ~key

\* A query parameter is absent, a number, or text that Number() turns into NaN.
Absent == [k |-> "absent"]
NaN == [k |-> "nan"]
Num(v) == [k |-> "num", v |-> v]

\* request n of `route` for session id, as it arrives
Reply(route, id, key, code) ==
  [route |-> route, id |-> id, key |-> key, code |-> code, known |-> sessions[id] # 0,
   connected |-> FALSE, phoneNumber |-> <<>>, meId |-> <<>>,
   to |-> <<>>, text |-> "", attempt |-> "", hook |-> "",
   url |-> FALSE, secret |-> "",            \* the body of a webhook registration
   limit |-> Absent, beforeTs |-> Absent]   \* the query, while the route waits

\* reply.send({connected: s.connected, phoneNumber: s.phoneNumber || null, meId: ...})
StatusBody(r, s) ==
  [r EXCEPT !.code = 200, !.connected = s.connected,
            !.phoneNumber = s.phoneNumber, !.meId = s.meId]
\* ---- outbound sends -------------------------------------------------------
\* the bodies a send request may carry: <<>> is a missing `to`, "" a missing
\* `text`
WellFormed == [to |-> <<"+", "4", "1", "7", "6">>, text |-> "hi"]
Bodies == {WellFormed,
           [to |-> <<>>, text |-> "hi"],
           [to |-> <<"a", "b">>, text |-> "hi"],
           [to |-> WellFormed.to, text |-> ""]}
FetchOutcomes == {"2xx", "non2xx", "threw"}

\* `${String(to).replace(/[^\d]/g, '')}@s.whatsapp.net`
cleanTo(to) == SelectSeq(to, LAMBDA c : c \in Digit)
jidOf(to) == cleanTo(to) \o <<"@", "s">>

\* s.sock.sendMessage(jid, {text}) is called on handle h for request n
Dispatch(n, h, to, text) ==
  wire' = Append(wire, [req |-> n, h |-> h, jid |-> jidOf(to), text |-> text, at |-> now])

\* touchRecentChat(s, jid, tsMs, nameGuess) on the store of a session: an
\* unknown jid is added at the end, a known one keeps its place, takes the
\* later timestamp and a name if it had none.  A stored chat is
\* [jid, ts, name, subject], "" standing for null; revision A has no subject
\* and leaves it "".
touchRecentChat(store, jid, tsMs, nameGuess) ==
  IF \E i \in 1..Len(store) : store[i].jid = jid
  THEN [i \in 1..Len(store) |->
          IF store[i].jid = jid
          THEN [store[i] EXCEPT
                  !.ts = IF tsMs > @ THEN tsMs ELSE @,
                  !.name = IF @ = "" THEN nameGuess ELSE @]
          ELSE store[i]]
  ELSE Append(store, [jid |-> jid, ts |-> tsMs, name |-> nameGuess, subject |-> ""])

\* `await s.sock.sendMessage(...)`: the route goes on when the call returns,
\* and ends there (500) when it throws
afterSendMessageMutIgnoresThrow(ok) == "goesOn"
afterSendMessage(ok) == IF ok THEN "goesOn" ELSE "throws"

\* sendWebhookEvent wraps its fetch in try/catch and looks at no status: its
\* promise resolves whatever the POST did
sendWebhookEventSettlesMutRethrows(outcome) == IF outcome = "2xx" THEN "resolved" ELSE "rejected"
sendWebhookEventSettles(outcome) == "resolved"


\* ---- chat listing -----------------------------------------------------------
DefaultLimit == 20
MaxLimit == 50

\* Math.min(Number(q.limit || 20), 50)
parseLimitMutNoCap(limit) == IF limit.k = "absent" THEN Num(DefaultLimit) ELSE limit
parseLimit(limit) ==
  IF limit.k = "absent" THEN Num(DefaultLimit)
  ELSE IF limit.k = "nan" THEN NaN
  ELSE Num(IF limit.v < MaxLimit THEN limit.v ELSE MaxLimit)

\* Number(q.beforeTs || 0)
parseBeforeTs(beforeTs) == IF beforeTs.k = "absent" THEN Num(0) ELSE beforeTs

\* lastTsMs of a stored chat: revision A keeps milliseconds, revision C the
\* transport's conversationTimestamp in seconds
lastTsMs(c) == IF rev = "C" THEN c.ts * 1000 ELSE c.ts

\* Array.prototype.sort((a, b) => tb - ta): descending, stable (chats of the
\* same timestamp keep the order they had)
RECURSIVE sortDesc(_)
sortDesc(store) ==
  IF Len(store) <= 1 THEN store
  ELSE LET t == store[(Len(store) + 1) \div 2].ts
       IN sortDesc(SelectSeq(store, LAMBDA c : c.ts > t))
            \o SelectSeq(store, LAMBDA c : c.ts = t)
            \o sortDesc(SelectSeq(store, LAMBDA c : c.ts < t))

\* sorted.filter(c => c.lastTsMs < beforeTs) when beforeTs > 0, else sorted
filterBefore(sorted, b) ==
  IF b.k = "num" /\ b.v > 0
  THEN SelectSeq(sorted, LAMBDA c : lastTsMs(c) < b.v)
  ELSE sorted

\* Array.prototype.slice(0, end): NaN counts as 0, a negative end counts from
\* the end of the array
slice(seq, end) ==
  LET n == Len(seq)
      e == IF end.k = "nan" THEN 0
           ELSE IF end.v < 0 THEN (IF n + end.v < 0 THEN 0 ELSE n + end.v)
           ELSE IF end.v > n THEN n ELSE end.v
  IN SubSeq(seq, 1, e)

\* the body of GET /sessions/:id/chats for the store of a session
listChats(store, limit, beforeTs) ==
  LET pg == slice(filterBefore(sortDesc(store), parseBeforeTs(beforeTs)), parseLimit(limit))
  IN [chats |-> [i \in 1..Len(pg) |->
                   [chatJid |-> pg[i].jid,
                    chatNumber |-> extractPhoneFromJid(pg[i].jid),
                    chatName |-> IF pg[i].name # "" \/ rev = "A" THEN pg[i].name
                                 ELSE pg[i].subject,
                    lastTsMs |-> lastTsMs(pg[i])]],
      nextBeforeTs |-> IF Len(pg) > 0 THEN Num(lastTsMs(pg[Len(pg)])) ELSE [k |-> "null"]]

\* the listing of session object o, as the last page served
Page(o, limit, beforeTs) ==
  <<[o |-> o, limit |-> limit, beforeTs |-> beforeTs,
     body |-> listChats(objs[o].chats, limit, beforeTs)]>>

\* GET /sessions/:id
\*   revision C (index.ts:1719-1734): 404 for an unknown id, else the state
\*   revision A (index.ts:706-723): ensureSessionLoaded(id) first, 404 only
\*     when that throws
GetStatus(id, key) ==
  /\ CanRequest
  /\ LET r == Reply("status", id, key, 0)
         n == Len(replies) + 1
     IN IF rev = "C"
        THEN /\ replies' = Append(replies, IF sessions[id] = 0 THEN [r EXCEPT !.code = 404]
                                           ELSE StatusBody(r, objs[sessions[id]]))
             /\ UNCHANGED supervisor
        ELSE IF Loaded(id)
        THEN /\ replies' = Append(replies, StatusBody(r, objs[sessions[id]]))
             /\ UNCHANGED supervisor
        ELSE /\ buildSessionSocket(id, creds, ReqTag(n))
             /\ replies' = Append(replies, r)
             /\ UNCHANGED <<rev, hookSet, sessions, objs, socks, posts, logoutResult>>
  /\ UNCHANGED <<apiKeySet, inbox, walk, wire, now, page>>

\* revision A: the buildSessionSocket that request n waits for has returned;
\* the route goes on with the fresh session
LoadResume(n) ==
  /\ rev = "A"
  /\ n \in 1..Len(replies)
  /\ BagIn(Task("build", replies[n].id, 0, ReqTag(n)), tasks)
  /\ BuildInstall(replies[n].id, replies[n].url,
                  IF replies[n].url THEN replies[n].secret ELSE "")
  /\ IF replies[n].route = "status"
     THEN /\ tasks' = Resume(Task("build", replies[n].id, 0, ReqTag(n)))
          /\ replies' = [replies EXCEPT ![n] = StatusBody(@, objs'[Len(objs')])]
          /\ UNCHANGED <<wire, page>>
     ELSE IF replies[n].route = "chats"
     THEN /\ tasks' = Resume(Task("build", replies[n].id, 0, ReqTag(n)))
          /\ replies' = [replies EXCEPT ![n].code = 200, ![n].limit = Absent, ![n].beforeTs = Absent]
          /\ page' = <<[o |-> Len(objs'), limit |-> replies[n].limit, beforeTs |-> replies[n].beforeTs,
                        body |-> listChats(<<>>, replies[n].limit, replies[n].beforeTs)]>>
          /\ UNCHANGED wire
     ELSE IF replies[n].route = "webhook"
     THEN /\ tasks' = Resume(Task("build", replies[n].id, 0, ReqTag(n)))
          /\ replies' = [replies EXCEPT ![n].code = IF replies[n].url THEN 200 ELSE 400]
          /\ UNCHANGED <<wire, page>>
     ELSE IF replies[n].route = "history"
     THEN /\ tasks' = Resume(Task("build", replies[n].id, 0, ReqTag(n)))
                         (+) SetToBag({Task("loading", replies[n].id, Len(objs'), ReqTag(n))})
          /\ replies' = replies
          /\ UNCHANGED <<wire, page>>
     ELSE /\ Dispatch(n, Len(socks'), replies[n].to, replies[n].text)
          /\ tasks' = Resume(Task("build", replies[n].id, 0, ReqTag(n)))
                         (+) SetToBag({Task("sending", replies[n].id, Len(objs'), ReqTag(n))})
          /\ replies' = [replies EXCEPT ![n].attempt = "pending"]
          /\ UNCHANGED page
  /\ UNCHANGED <<rev, hookSet, posts, used, logoutResult>>
  /\ UNCHANGED <<apiKeySet, inbox, walk, now>>

\* revision A: that buildSessionSocket has thrown; ensureSessionLoaded(id)
\* .catch(() => null) and the route answers 404 (400 'session not ready' for a
\* send)
LoadFails(n) ==
  /\ rev = "A"
  /\ n \in 1..Len(replies)
  /\ BagIn(Task("build", replies[n].id, 0, ReqTag(n)), tasks)
  /\ tasks' = Resume(Task("build", replies[n].id, 0, ReqTag(n)))
  /\ replies' = [replies EXCEPT ![n].code = IF replies[n].route \in {"messages", "history"} THEN 400 ELSE 404]
  /\ UNCHANGED <<rev, hookSet, sessions, objs, socks, creds, posts, used, logoutResult>>
  /\ UNCHANGED <<apiKeySet, inbox, walk, wire, now, page>>


\* POST /messages {sessionId, to, text}
\*   revision C (index.ts:1746-1775): key, then 400 unless the session has a
\*     handle, then sendMessage at once
\*   revision A (index.ts:888-927): key, then ensureSessionLoaded, then
\*     sendMessage
PostMessages(id, key, to, text) ==
  /\ CanRequest
  /\ LET r == [Reply("messages", id, key, 0) EXCEPT !.to = to, !.text = text]
         n == Len(replies) + 1
     IN IF unauthorized(key)
        THEN /\ replies' = Append(replies, [r EXCEPT !.code = 401])
             /\ UNCHANGED <<supervisor, wire>>
        ELSE IF rev = "C" /\ (sessions[id] = 0 \/ objs[sessions[id]].sock = 0)
        THEN /\ replies' = Append(replies, [r EXCEPT !.code = 400])
             /\ UNCHANGED <<supervisor, wire>>
        ELSE IF rev = "C" \/ Loaded(id)
        THEN /\ CanSuspend
             /\ Dispatch(n, objs[sessions[id]].sock, to, text)
             /\ tasks' = Suspend(Task("sending", id, sessions[id], ReqTag(n)))
             /\ replies' = Append(replies, [r EXCEPT !.attempt = "pending"])
             /\ UNCHANGED <<rev, hookSet, sessions, objs, socks, creds, posts, used, logoutResult>>
        ELSE /\ buildSessionSocket(id, creds, ReqTag(n))
             /\ replies' = Append(replies, r)
             /\ UNCHANGED <<rev, hookSet, sessions, objs, socks, posts, logoutResult, wire>>
  /\ UNCHANGED <<apiKeySet, inbox, walk, now, page>>

\* sendMessage of request n has returned (ok) or thrown: on return the route
\* bumps the chat (revision A) and publishes message.out
SendSettles(n, ok) ==
  /\ n \in 1..Len(replies)
  /\ \E o \in 1..Len(objs) :
       LET t == Task("sending", replies[n].id, o, ReqTag(n))
       IN /\ BagIn(t, tasks)
          /\ IF afterSendMessage(ok) = "goesOn"
             THEN /\ CanPost(replies[n].id)
                  /\ objs' = IF rev = "A"
                             THEN [objs EXCEPT ![o].chats =
                                     touchRecentChat(@, jidOf(replies[n].to), now, "")]
                             ELSE objs
                  /\ posts' = Publish(replies[n].id,
                                      sendWebhookEvent(objs[o], "message.out", Data("", "")))
                  /\ tasks' = Resume(t) (+) SetToBag({Task("sendHook", replies[n].id, o, ReqTag(n))})
                  /\ replies' = [replies EXCEPT ![n].hook = "pending",
                                                ![n].attempt = IF ok THEN "returned" ELSE "threw"]
             ELSE /\ tasks' = Resume(t)
                  /\ replies' = [replies EXCEPT ![n].code = 500, ![n].attempt = "threw"]
                  /\ UNCHANGED <<objs, posts>>
  /\ UNCHANGED <<rev, hookSet, sessions, socks, creds, used, logoutResult>>
  /\ UNCHANGED <<apiKeySet, inbox, walk, wire, now, page>>

\* sendWebhookEvent of request n has settled: the POST got `outcome`, or
\* nothing was posted ("none") for want of a target; the route answers
SendFinish(n, outcome) ==
  /\ n \in 1..Len(replies)
  /\ \E o \in 1..Len(objs) :
       LET t == Task("sendHook", replies[n].id, o, ReqTag(n))
       IN /\ BagIn(t, tasks)
          /\ outcome = "none" <=> ~posts[replies[n].id][Len(posts[replies[n].id])].sent
          /\ tasks' = Resume(t)
  /\ replies' = [replies EXCEPT
                   ![n].code = IF sendWebhookEventSettles(outcome) = "resolved" THEN 200 ELSE 500,
                   ![n].hook = outcome]
  /\ UNCHANGED <<rev, hookSet, sessions, objs, socks, creds, posts, used, logoutResult>>
  /\ UNCHANGED <<apiKeySet, inbox, walk, wire, now, page>>

\* a minute passes
MaxMinutes == 1   \* minutes a run lasts
Tick ==
  /\ now < MaxMinutes
  /\ now' = now + 1
  /\ UNCHANGED <<supervisor, apiKeySet, inbox, walk, replies, wire, page>>

InitHttp ==
  /\ rev \in Revisions
  /\ hookSet \in BOOLEAN
  /\ (rev = "A" => hookSet = FALSE)
  /\ sessions = [i \in Ids |-> 0]
  /\ objs = <<>>
  /\ socks = <<>>
  /\ creds = [i \in Ids |-> "absent"]
  /\ tasks = EmptyBag
  /\ posts = [i \in Ids |-> <<>>]
  /\ used = {}
  /\ logoutResult = [i \in Ids |-> ""]
  /\ apiKeySet \in BOOLEAN
  /\ replies = <<>>
  /\ wire = <<>>
  /\ now = 0
  /\ page = <<>>
  /\ inbox = <<>>
  /\ walk = NoWalk

NextHttp ==
  \/ \E id \in Ids : Create(id) /\ UNCHANGED surface
  \/ \E id \in Ids : StartResume(id) /\ UNCHANGED surface
  \/ \E id \in Ids : BuildResume(id, "none") /\ UNCHANGED surface
  \/ \E h \in 1..Len(socks), me \in SelfIds \cup {<<>>} : onOpen(h, me) /\ UNCHANGED surface
  \/ \E id \in Ids, key \in BOOLEAN : GetStatus(id, key)
  \/ \E n \in 1..Len(replies) : LoadResume(n)
  \/ \E n \in 1..Len(replies) : LoadFails(n)

SpecHttp == InitHttp /\ [][NextHttp]_vars

\* The send route, for well-formed sends with and without the key, on top of
\* session creation and loading; in revision A the consumer registers its
\* webhook target on a session that is loaded.
NextSend ==
  \/ \E id \in Ids : Create(id) /\ UNCHANGED surface
  \/ \E id \in Ids : StartResume(id) /\ UNCHANGED surface
  \/ \E id \in Ids : BuildResume(id, "none") /\ UNCHANGED surface
  \/ \E id \in Ids, secret \in RegisteredSecrets :
       Loaded(id) /\ RegisterWebhook(id, secret) /\ UNCHANGED surface
  \/ \E id \in Ids, key \in BOOLEAN : PostMessages(id, key, WellFormed.to, WellFormed.text)
  \/ \E n \in 1..Len(replies) : LoadResume(n)
  \/ \E n \in 1..Len(replies) : LoadFails(n)
  \/ \E n \in 1..Len(replies), ok \in BOOLEAN : SendSettles(n, ok)
  \/ \E n \in 1..Len(replies), outcome \in FetchOutcomes \cup {"none"} : SendFinish(n, outcome)

SpecSend == InitHttp /\ [][NextSend]_vars

\* Bursts of sends of any body, with the key, against the clock.
NextPace ==
  \/ \E id \in Ids : Create(id) /\ UNCHANGED surface
  \/ \E id \in Ids : StartResume(id) /\ UNCHANGED surface
  \/ \E id \in Ids : BuildResume(id, "none") /\ UNCHANGED surface
  \/ \E id \in Ids, b \in Bodies : PostMessages(id, TRUE, b.to, b.text)
  \/ \E n \in 1..Len(replies) : LoadResume(n)
  \/ \E n \in 1..Len(replies) : LoadFails(n)
  \/ \E n \in 1..Len(replies), ok \in BOOLEAN : SendSettles(n, ok)
  \/ \E n \in 1..Len(replies), outcome \in FetchOutcomes \cup {"none"} : SendFinish(n, outcome)
  \/ Tick

SpecPace == InitHttp /\ [][NextPace]_vars

\* GET /sessions/:id/chats?limit=&beforeTs=
\*   revision C (index.ts:1778-1817): 400 unless the session has a handle,
\*     then the key, then the listing
\*   revision A (index.ts:775-824): the key, then ensureSessionLoaded, then
\*     the listing
GetChats(id, key, limit, beforeTs) ==
  /\ CanRequest
  /\ LET r == Reply("chats", id, key, 0)
         n == Len(replies) + 1
     IN IF rev = "C"
        THEN /\ replies' = Append(replies,
                  [r EXCEPT !.code = IF sessions[id] = 0 \/ objs[sessions[id]].sock = 0 THEN 400
                                     ELSE IF unauthorized(key) THEN 401 ELSE 200])
             /\ page' = IF sessions[id] # 0 /\ objs[sessions[id]].sock # 0 /\ ~unauthorized(key)
                        THEN Page(sessions[id], limit, beforeTs) ELSE page
             /\ UNCHANGED supervisor
        ELSE IF unauthorized(key)
        THEN /\ replies' = Append(replies, [r EXCEPT !.code = 401])
             /\ UNCHANGED <<supervisor, page>>
        ELSE IF Loaded(id)
        THEN /\ replies' = Append(replies, [r EXCEPT !.code = 200])
             /\ page' = Page(sessions[id], limit, beforeTs)
             /\ UNCHANGED supervisor
        ELSE /\ buildSessionSocket(id, creds, ReqTag(n))
             /\ replies' = Append(replies, [r EXCEPT !.limit = limit, !.beforeTs = beforeTs])
             /\ UNCHANGED <<rev, hookSet, sessions, objs, socks, posts, logoutResult, page>>
  /\ UNCHANGED <<apiKeySet, inbox, walk, wire, now>>

\* the chat stores a loaded session may hold: n chats in an order of arrival
\* that is not the order of their timestamps, or with timestamps shared
ChatJid(i) == Digits(5) \o <<Digit2(i \div 10), Digit2(i % 10)>> \o <<"@", "s">>
Store(n, m) ==
  [i \in 1..n |-> [jid |-> ChatJid(i), ts |-> ((i * 5) % m) + 1,
                   name |-> IF i % 2 = 0 THEN "n" ELSE "", subject |-> ""]]
Stores == {Store(0, 1), Store(3, 3), Store(4, 2), Store(5, 6), Store(MaxLimit + 1, MaxLimit + 1)}

\* the limits and cursors a request may carry
Limits == {Absent, NaN, Num(-1), Num(2), Num(MaxLimit + 1)}
Cursors == {Absent, Num(0), Num(3), Num(3000)}

\* A session that is loaded and holds one of the stores, or no session at all.
InitChats ==
  /\ rev \in Revisions
  /\ hookSet = FALSE
  /\ \E loaded \in BOOLEAN, store \in Stores :
       IF loaded
       THEN /\ sessions = [i \in Ids |-> 1]
            /\ objs = <<[NewSession("s1", 1, FALSE, "") EXCEPT !.chats = store]>>
            /\ socks = <<makeWASocket("s1", 1)>>
            /\ creds = [i \in Ids |-> "paired"]
            /\ used = Ids
       ELSE /\ store = <<>>
            /\ sessions = [i \in Ids |-> 0]
            /\ objs = <<>>
            /\ socks = <<>>
            /\ creds = [i \in Ids |-> "absent"]
            /\ used = {}
  /\ tasks = EmptyBag
  /\ posts = [i \in Ids |-> <<>>]
  /\ logoutResult = [i \in Ids |-> ""]
  /\ apiKeySet \in BOOLEAN
  /\ replies = <<>>
  /\ wire = <<>>
  /\ now = 0
  /\ page = <<>>
  /\ inbox = <<>>
  /\ walk = NoWalk

NextChats ==
  \/ \E id \in Ids, key \in BOOLEAN, limit \in Limits, beforeTs \in Cursors :
       GetChats(id, key, limit, beforeTs)
  \/ \E n \in 1..Len(replies) : LoadResume(n)
  \/ \E n \in 1..Len(replies) : LoadFails(n)

SpecChats == InitChats /\ [][NextChats]_vars

\* ---- webhook registration as a followed request -------------------------------------
\* POST /sessions/:id/webhook {url, secret} (revision A, index.ts:751-771):
\* ensureSessionLoaded(id), 404 when that throws; 400 'missing url' without a
\* url; else store the url, and the secret when one is given.  url: the body
\* carries one; secret: "" when the body carries none.
\*   if (!url) return 400;  s.webhookUrl = String(url);
\*   if (secret) s.webhookSecret = String(secret)
storeHookMutSecretBeforeUrl(s, url, secret) ==
  [s EXCEPT !.webhookUrl = IF url THEN TRUE ELSE @,
            !.webhookSecret = IF secret # "" THEN secret ELSE @]
storeHook(s, url, secret) ==
  IF ~url THEN s
  ELSE [s EXCEPT !.webhookUrl = TRUE,
                 !.webhookSecret = IF secret # "" THEN secret ELSE @]

PostWebhook(id, url, secret) ==
  /\ rev = "A"
  /\ CanRequest
  /\ LET r == [Reply("webhook", id, TRUE, 0) EXCEPT !.url = url, !.secret = secret]
         n == Len(replies) + 1
     IN IF Loaded(id)
        THEN /\ replies' = Append(replies, [r EXCEPT !.code = IF url THEN 200 ELSE 400])
             /\ objs' = [objs EXCEPT ![sessions[id]] = storeHook(@, url, secret)]
             /\ UNCHANGED <<rev, hookSet, sessions, socks, creds, tasks, posts, used, logoutResult>>
        ELSE /\ buildSessionSocket(id, creds, ReqTag(n))
             /\ replies' = Append(replies, r)
             /\ UNCHANGED <<rev, hookSet, sessions, objs, socks, posts, logoutResult>>
  /\ UNCHANGED <<apiKeySet, inbox, walk, wire, now, page>>

\* Registrations, with and without url and secret, for a session that is in
\* the directory or only on disk.
NextHook ==
  \/ \E id \in Ids, url \in BOOLEAN, secret \in {""} \cup RegisteredSecrets :
       PostWebhook(id, url, secret)
  \/ \E n \in 1..Len(replies) : LoadResume(n)
  \/ \E n \in 1..Len(replies) : LoadFails(n)

SpecHook == InitChats /\ [][NextHook]_vars

\* ---- paginating the chat listing ---------------------------------------------------
\* A client pages through GET /sessions/:id/chats of a loaded session: its
\* first request carries no cursor, each later one sends back the
\* nextBeforeTs of the page before, and it stops at an empty page.  The
\* route answers each request as above (index.ts:1788-1817; revision A
\* 791-824); these requests are not among the followed ones in replies.
MaxPages == 4   \* requests of one pagination
FollowChats(id) ==
  /\ Loaded(id)
  /\ ~unauthorized(TRUE)
  /\ ~walk.done
  /\ walk.pages < MaxPages
  /\ LET body == listChats(objs[sessions[id]].chats, walk.limit, walk.cursor)
     IN /\ page' = Page(sessions[id], walk.limit, walk.cursor)
        /\ walk' = [walk EXCEPT
                      !.seen = @ \o [i \in 1..Len(body.chats) |-> body.chats[i].chatJid],
                      !.cursor = IF body.nextBeforeTs.k = "num" THEN body.nextBeforeTs ELSE @,
                      !.pages = @ + 1,
                      !.done = body.chats = <<>>]
  /\ UNCHANGED <<supervisor, apiKeySet, replies, wire, now, inbox>>

\* the stores paginated: up to three chats, timestamps shared or not; revision
\* C also stores a chat with timestamp 0 (ensureChat), revision A never does
MaxStore == 3
WalkStamps == IF rev = "C" THEN 0..2 ELSE 1..3
WalkStores ==
  UNION {{[i \in 1..n |-> [jid |-> ChatJid(i), ts |-> f[i], name |-> "", subject |-> ""]] :
            f \in [1..n -> WalkStamps]} : n \in 0..MaxStore}

InitWalk ==
  /\ rev \in Revisions
  /\ hookSet = FALSE
  /\ sessions = [i \in Ids |-> 1]
  /\ \E store \in WalkStores :
       objs = <<[NewSession("s1", 1, FALSE, IF rev = "C" THEN randomBytes(1) ELSE "")
                   EXCEPT !.chats = store]>>
  /\ socks = <<makeWASocket("s1", 1)>>
  /\ creds = [i \in Ids |-> "paired"]
  /\ used = Ids
  /\ tasks = EmptyBag
  /\ posts = [i \in Ids |-> <<>>]
  /\ logoutResult = [i \in Ids |-> ""]
  /\ apiKeySet = FALSE
  /\ replies = <<>>
  /\ wire = <<>>
  /\ now = 0
  /\ page = <<>>
  /\ inbox = <<>>
  /\ \E limit \in {Absent, Num(1), Num(2)} : walk = [NoWalk EXCEPT !.limit = limit]

NextWalk == \E id \in Ids : FollowChats(id)

SpecWalk == InitWalk /\ [][NextWalk]_vars

\* ---- message history ----------------------------------------------------------
\* one message as the transport's loadMessages returns it
RawMsg(id, fromMe, ts) == [id |-> id, fromMe |-> fromMe, ts |-> ts]

\* simplifyBaileysMessage (index.ts:204-226; inline in revision C, 1847-1867)
\*   messageTimestamp absent counts as 0
simplifyBaileysMessage(m) ==
  [messageId |-> m.id, fromMe |-> m.fromMe, mediaUrl |-> [k |-> "null"],
   mediaMime |-> [k |-> "null"],
   timestampMs |-> (IF m.ts.k = "num" THEN m.ts.v ELSE 0) * 1000]

\* the route's answer for the raw messages the transport returned
\*   const last = messages[messages.length - 1]
\*   nextCursor = last ? {beforeId: last.messageId, beforeFromMe: last.fromMe} : null
historyBodyMutCursorOfFirst(rawMsgs) ==
  LET messages == [i \in 1..Len(rawMsgs) |-> simplifyBaileysMessage(rawMsgs[i])]
  IN [messages |-> messages,
      nextCursor |-> IF Len(messages) > 0
                     THEN [k |-> "cursor", beforeId |-> messages[1].messageId,
                           beforeFromMe |-> messages[1].fromMe]
                     ELSE [k |-> "null"]]
historyBody(rawMsgs) ==
  LET messages == [i \in 1..Len(rawMsgs) |-> simplifyBaileysMessage(rawMsgs[i])]
  IN [messages |-> messages,
      nextCursor |-> IF Len(messages) > 0
                     THEN [k |-> "cursor", beforeId |-> messages[Len(messages)].messageId,
                           beforeFromMe |-> messages[Len(messages)].fromMe]
                     ELSE [k |-> "null"]]

\* GET /sessions/:id/chats/:jid/messages
\*   revision C (index.ts:1822-1876): 400 unless the session has a handle,
\*     then the key, then await s.sock.loadMessages(jid, limit, cursor)
\*   revision A (index.ts:828-884): the key, then ensureSessionLoaded, then
\*     loadMessages
\* jid, limit and the cursor of the query go to the transport unchanged and
\* nowhere else; what the transport returns for them is its own choice.
GetHistory(id, key) ==
  /\ CanRequest
  /\ LET r == Reply("history", id, key, 0)
         n == Len(replies) + 1
     IN IF rev = "C" /\ (sessions[id] = 0 \/ objs[sessions[id]].sock = 0)
        THEN /\ replies' = Append(replies, [r EXCEPT !.code = 400])
             /\ UNCHANGED supervisor
        ELSE IF unauthorized(key)
        THEN /\ replies' = Append(replies, [r EXCEPT !.code = 401])
             /\ UNCHANGED supervisor
        ELSE IF rev = "C" \/ Loaded(id)
        THEN /\ CanSuspend
             /\ tasks' = Suspend(Task("loading", id, sessions[id], ReqTag(n)))
             /\ replies' = Append(replies, r)
             /\ UNCHANGED <<rev, hookSet, sessions, objs, socks, creds, posts, used, logoutResult>>
        ELSE /\ buildSessionSocket(id, creds, ReqTag(n))
             /\ replies' = Append(replies, r)
             /\ UNCHANGED <<rev, hookSet, sessions, objs, socks, posts, logoutResult>>
  /\ UNCHANGED <<apiKeySet, inbox, walk, wire, now, page>>

\* loadMessages of request n has returned rawMsgs: the route answers with the
\* shaped page
HistorySettles(n, rawMsgs) ==
  /\ n \in 1..Len(replies)
  /\ \E o \in 1..Len(objs) :
       LET t == Task("loading", replies[n].id, o, ReqTag(n))
       IN /\ BagIn(t, tasks)
          /\ tasks' = Resume(t)
          /\ page' = <<[o |-> o, rawMsgs |-> rawMsgs, body |-> historyBody(rawMsgs)]>>
  /\ replies' = [replies EXCEPT ![n].code = 200]
  /\ UNCHANGED <<rev, hookSet, sessions, objs, socks, creds, posts, used, logoutResult>>
  /\ UNCHANGED <<apiKeySet, inbox, walk, wire, now>>

\* loadMessages of request n has thrown: 500 'loadMessages failed'
HistoryFails(n) ==
  /\ n \in 1..Len(replies)
  /\ \E o \in 1..Len(objs) :
       LET t == Task("loading", replies[n].id, o, ReqTag(n))
       IN /\ BagIn(t, tasks)
          /\ tasks' = Resume(t)
  /\ replies' = [replies EXCEPT ![n].code = 500]
  /\ UNCHANGED <<rev, hookSet, sessions, objs, socks, creds, posts, used, logoutResult>>
  /\ UNCHANGED <<apiKeySet, inbox, walk, wire, now, page>>

\* what loadMessages may return: up to three messages of one chat, in any
\* order, one of them without a timestamp
RawMessages ==
  {RawMsg("m1", FALSE, Num(1)), RawMsg("m2", TRUE, Num(2)), RawMsg("m3", FALSE, Num(3)),
   RawMsg("m4", TRUE, Absent)}
MaxHistory == 3
Histories ==
  {h \in UNION {[1..k -> RawMessages] : k \in 0..MaxHistory} :
     \A i, j \in 1..Len(h) : i # j => h[i] # h[j]}

NextHistory ==
  \/ \E id \in Ids, key \in BOOLEAN : GetHistory(id, key)
  \/ \E n \in 1..Len(replies) : LoadResume(n)
  \/ \E n \in 1..Len(replies) : LoadFails(n)
  \/ \E n \in 1..Len(replies), rawMsgs \in Histories : HistorySettles(n, rawMsgs)
  \/ \E n \in 1..Len(replies) : HistoryFails(n)

SpecHistory == InitChats /\ [][NextHistory]_vars

\* ---- chat store events (revision C, index.ts:1347-1395) ---------------------
\* A field of an event payload is absent (undefined), null, a string or a
\* number.
Null == [k |-> "null"]
Str(v) == [k |-> "str", v |-> v]
nullish(x) == x.k \in {"absent", "null"}

\* s.chats.get(id) ?? ensureChat(id); a stored timestamp of 0 is null
chatOf(store, id) ==
  IF \E i \in 1..Len(store) : store[i].jid = id
  THEN store[CHOOSE i \in 1..Len(store) : store[i].jid = id]
  ELSE [jid |-> id, ts |-> 0, name |-> "", subject |-> ""]

\* Map.set(id, chat): a known key keeps its place, a new one goes last
mapSet(store, chat) ==
  IF \E i \in 1..Len(store) : store[i].jid = chat.jid
  THEN [i \in 1..Len(store) |-> IF store[i].jid = chat.jid THEN chat ELSE store[i]]
  ELSE Append(store, chat)

\* setChats, for one element c of the array: name and subject by ??, the
\* timestamp by ||
setChats(store, c) ==
  LET base == chatOf(store, c.id)
  IN mapSet(store,
       [jid |-> c.id,
        name |-> IF nullish(c.name) THEN base.name ELSE c.name.v,
        subject |-> IF nullish(c.subject) THEN base.subject ELSE c.subject.v,
        ts |-> IF c.conversationTimestamp.k = "num" /\ c.conversationTimestamp.v # 0
               THEN c.conversationTimestamp.v ELSE base.ts])

\* the chats.update listener, for one element u of the array: every field
\* that is not undefined replaces the stored one
chatsUpdate(store, u) ==
  LET base == chatOf(store, u.id)
  IN mapSet(store,
       [jid |-> u.id,
        name |-> IF u.name.k = "absent" THEN base.name
                 ELSE IF u.name.k = "null" THEN "" ELSE u.name.v,
        subject |-> IF u.subject.k = "absent" THEN base.subject
                    ELSE IF u.subject.k = "null" THEN "" ELSE u.subject.v,
        ts |-> IF u.conversationTimestamp.k = "absent" THEN base.ts
               ELSE IF u.conversationTimestamp.k = "num" THEN u.conversationTimestamp.v ELSE 0])

\* the contacts.upsert listener, for one element c: a stored chat without a
\* name takes c.notify || c.name.  (s.contacts itself is written and never
\* read, and is not kept.)
contactsUpsert(store, c) ==
  LET guess == IF ~nullish(c.notify) /\ c.notify.v # "" THEN c.notify.v
               ELSE IF ~nullish(c.name) /\ c.name.v # "" THEN c.name.v ELSE ""
  IN IF \E i \in 1..Len(store) : store[i].jid = c.id /\ store[i].name = "" /\ guess # ""
     THEN mapSet(store, [chatOf(store, c.id) EXCEPT !.name = guess])
     ELSE store

\* a listener of handle h runs on the store of the session object that owns
\* h (wireChatContactStores closes over s)
Listening(h) == h \in 1..Len(socks) /\ socks[h].listening
StoreEvent(h, store) ==
  /\ rev = "C"
  /\ Listening(h)
  /\ objs' = [objs EXCEPT ![socks[h].obj].chats = store]
  /\ UNCHANGED <<rev, hookSet, sessions, socks, creds, tasks, posts, used, logoutResult>>

onChatsSet(h, c) == StoreEvent(h, setChats(objs[socks[h].obj].chats, c))
onChatsUpsert(h, c) == StoreEvent(h, setChats(objs[socks[h].obj].chats, c))
onChatsUpdate(h, u) == StoreEvent(h, chatsUpdate(objs[socks[h].obj].chats, u))
onContactsUpsert(h, c) == StoreEvent(h, contactsUpsert(objs[socks[h].obj].chats, c))

\* ---- inbound messages ---------------------------------------------------------
MaxInbound == 2   \* messages delivered in a run

ImagePng == <<"i", "m", "a", "g", "e", "/", "p", "n", "g">>
ImageJpeg == <<"i", "m", "a", "g", "e", "/", "j", "p", "e", "g">>
AppZip == <<"a", "p", "p", "l", "i", "c", "a", "t", "i", "o", "n", "/", "z", "i", "p">>
OctetStream == <<"a", "p", "p", "l", "i", "c", "a", "t", "i", "o", "n", "/", "o", "c", "t", "e", "t", "-", "s", "t", "r", "e", "a", "m">>

\* the environment's PUBLIC_BASE_URL, and the constant the program keeps
\* (.replace(/\/$/, ''))
EnvPublicBaseUrl == <<"h", "t", "t", "p", "s", ":", "/", "/", "w", "a", "/">>
PUBLIC_BASE_URL ==
  IF EnvPublicBaseUrl # <<>> /\ EnvPublicBaseUrl[Len(EnvPublicBaseUrl)] = "/"
  THEN SubSeq(EnvPublicBaseUrl, 1, Len(EnvPublicBaseUrl) - 1) ELSE EnvPublicBaseUrl

\* String.prototype.includes
includes(str, sub) ==
  \E i \in 1..(Len(str) - Len(sub) + 1) : SubSeq(str, i, i + Len(sub) - 1) = sub

guessExtMutAlwaysBin(mime) == <<"b", "i", "n">>
guessExt(mime) ==
  IF mime = <<>> THEN <<"b", "i", "n">>
  ELSE IF includes(mime, <<"j", "p", "e", "g">>) THEN <<"j", "p", "g">>
  ELSE IF includes(mime, <<"j", "p", "g">>) THEN <<"j", "p", "g">>
  ELSE IF includes(mime, <<"p", "n", "g">>) THEN <<"p", "n", "g">>
  ELSE IF includes(mime, <<"w", "e", "b", "p">>) THEN <<"w", "e", "b", "p">>
  ELSE IF includes(mime, <<"g", "i", "f">>) THEN <<"g", "i", "f">>
  ELSE IF includes(mime, <<"m", "p", "4">>) THEN <<"m", "p", "4">>
  ELSE IF includes(mime, <<"m", "p", "e", "g">>) THEN <<"m", "p", "3">>
  ELSE IF includes(mime, <<"o", "g", "g">>) THEN <<"o", "g", "g">>
  ELSE IF includes(mime, <<"o", "p", "u", "s">>) THEN <<"o", "g", "g">>
  ELSE IF includes(mime, <<"p", "d", "f">>) THEN <<"p", "d", "f">>
  ELSE <<"b", "i", "n">>

\* what saveIncomingMedia returns once the download is over, for the n-th
\* message: `${Date.now()}-${random}` is the stamp of the file
Stamp(n) == <<"f", <<"1", "2", "3", "4">>[n]>>
mediaDescriptor(n, mimetype) ==
  LET mimeType == IF mimetype = <<>> THEN OctetStream ELSE mimetype
      filename == Stamp(n) \o <<".">> \o guessExt(mimeType)
  IN [k |-> "media", filename |-> filename, mimeType |-> mimeType,
      url |-> PUBLIC_BASE_URL \o <<"/", "m", "e", "d", "i", "a", "/">> \o filename]

\* a delivered message: its chat, its messageTimestamp (Absent or Num), its
\* pushName ("" for none) and its attachment (NoMedia, or Media(mimetype) with
\* <<>> for an attachment that declares no type)
NoMedia == [k |-> "none"]
Media(mimetype) == [k |-> "media", mimetype |-> mimetype]
Message(jid, ts, pushName, media) ==
  [jid |-> jid, ts |-> ts, pushName |-> pushName, media |-> media, fromMe |-> FALSE]
\* the same message with key.fromMe set: one the account itself has sent
FromMe(msg) == [msg EXCEPT !.fromMe = TRUE]
\* const eventName = fromMe ? 'message.out' : 'message.in'
eventName(msg) == IF msg.fromMe THEN "message.out" ELSE "message.in"
MsgTag(n) == <<"msg1", "msg2", "msg3", "msg4">>[n]

\* the timestamp the handler works with
\*   revision A: Number(msg.messageTimestamp || Date.now()) * 1000
\*   revision C: Number(msg.messageTimestamp || 0), sent as tsSec * 1000
\* Date.now(): milliseconds, the clock of the model counting minutes from
\* one minute after the epoch
DateNow == (now + 1) * 60000
tsOf(msg) ==
  IF rev = "A" THEN (IF msg.ts.k = "num" /\ msg.ts.v # 0 THEN msg.ts.v ELSE DateNow) * 1000
  ELSE IF msg.ts.k = "num" THEN msg.ts.v ELSE 0

\* the rest of onMessagesUpsert once saveIncomingMedia has returned mediaInfo
\* for the n-th message: revision C stamps the chat, then the webhook
afterMedia(o, n, msg, mediaInfo) ==
  /\ CanPost(objs[o].id)
  /\ objs' = IF rev = "C"
             THEN [objs EXCEPT ![o].chats =
                     mapSet(@, [chatOf(@, msg.jid) EXCEPT !.ts = tsOf(msg)])]
             ELSE objs
  /\ posts' = Publish(objs[o].id,
                 sendWebhookEvent(objs[o], eventName(msg),
                    [msg |-> n, media |-> mediaInfo,
                     timestampMs |-> IF rev = "C" THEN tsOf(msg) * 1000 ELSE tsOf(msg)]))

\* the messages.upsert listener of handle h up to its first real wait:
\* revision A touches the chat first; a message without attachment goes
\* through to its webhook, one with an attachment waits for the download
\* `const msg = m.messages?.[0]`: of the messages one event delivers, the
\* handler takes the first and never looks at the others
messagesUpsert(h, messages) ==
  /\ Listening(h)
  /\ messages # <<>>
  /\ Len(inbox) + Len(messages) <= MaxInbound
  /\ LET o == socks[h].obj
         n == Len(inbox) + 1
         msg == messages[1]
         others == [i \in 1..(Len(messages) - 1) |->
                      [h |-> h, msg |-> messages[i + 1], state |-> "ignored"]]
         touched == IF rev = "A"
                    THEN [objs EXCEPT ![o].chats = touchRecentChat(@, msg.jid, tsOf(msg), msg.pushName)]
                    ELSE objs
     IN IF msg.media.k = "none"
        THEN /\ CanPost(objs[o].id)
             /\ objs' = IF rev = "C"
                        THEN [objs EXCEPT ![o].chats =
                                mapSet(@, [chatOf(@, msg.jid) EXCEPT !.ts = tsOf(msg)])]
                        ELSE touched
             /\ posts' = Publish(objs[o].id,
                           sendWebhookEvent(objs[o], eventName(msg),
                              [msg |-> n, media |-> Null,
                               timestampMs |-> IF rev = "C" THEN tsOf(msg) * 1000 ELSE tsOf(msg)]))
             /\ inbox' = Append(inbox, [h |-> h, msg |-> msg, state |-> "published"]) \o others
             /\ UNCHANGED tasks
        ELSE /\ CanSuspend
             /\ objs' = touched
             /\ tasks' = Suspend(Task("media", objs[o].id, o, MsgTag(n)))
             /\ inbox' = Append(inbox, [h |-> h, msg |-> msg, state |-> "downloading"]) \o others
             /\ UNCHANGED posts
  /\ UNCHANGED <<rev, hookSet, sessions, socks, creds, used, logoutResult>>
  /\ UNCHANGED <<apiKeySet, replies, walk, wire, now, page>>

\* an event that delivers one message
onMessagesUpsert(h, msg) == messagesUpsert(h, <<msg>>)

\* downloadContentFromMessage of the n-th message is over: with the file the
\* handler goes on, on a failure saveIncomingMedia rejects and so does the
\* handler, which nobody catches
MediaSettles(n, ok) ==
  /\ n \in 1..Len(inbox)
  /\ inbox[n].state = "downloading"
  /\ LET o == socks[inbox[n].h].obj
         t == Task("media", objs[o].id, o, MsgTag(n))
         msg == inbox[n].msg
     IN /\ BagIn(t, tasks)
        /\ tasks' = Resume(t)
        /\ IF ok
           THEN /\ afterMedia(o, n, msg, mediaDescriptor(n, msg.media.mimetype))
                /\ inbox' = [inbox EXCEPT ![n].state = "published"]
           ELSE /\ inbox' = [inbox EXCEPT ![n].state = "failed"]
                /\ UNCHANGED <<objs, posts>>
  /\ UNCHANGED <<rev, hookSet, sessions, socks, creds, used, logoutResult>>
  /\ UNCHANGED <<apiKeySet, replies, walk, wire, now, page>>

\* the payloads the transport may deliver
Jids == {<<"4", "1", "7", "6", "0", "@", "s">>, <<"4", "1", "7", "6", "1", "@", "s">>}
NameFields == {Absent, Null, Str(""), Str("Ann")}
StampFields == {Absent, Null, Num(1), Num(2)}
ChatPayloads ==
  [id : Jids, name : NameFields, subject : {Absent}, conversationTimestamp : StampFields]
ContactPayloads == [id : Jids, notify : {Absent, Str("Bob")}, name : {Absent, Str("Ann")}]

\* A loaded session with an empty store and its listeners attached.
InitLoaded ==
  /\ rev \in Revisions
  /\ hookSet \in BOOLEAN
  /\ (rev = "A" => hookSet = FALSE)
  /\ sessions = [i \in Ids |-> 1]
  /\ objs = <<NewSession("s1", 1, hookSet, IF rev = "C" THEN randomBytes(1) ELSE "")>>
  /\ socks = <<makeWASocket("s1", 1)>>
  /\ creds = [i \in Ids |-> "paired"]
  /\ used = Ids
  /\ tasks = EmptyBag
  /\ posts = [i \in Ids |-> <<>>]
  /\ logoutResult = [i \in Ids |-> ""]
  /\ apiKeySet = FALSE
  /\ replies = <<>>
  /\ wire = <<>>
  /\ now = 0
  /\ page = <<>>
  /\ inbox = <<>>
  /\ walk = NoWalk

\* The chat store under the transport's chat, contact and message events.
NextStore ==
  \/ \E h \in 1..Len(socks), c \in ChatPayloads : onChatsSet(h, c) /\ UNCHANGED surface
  \/ \E h \in 1..Len(socks), c \in ChatPayloads : onChatsUpsert(h, c) /\ UNCHANGED surface
  \/ \E h \in 1..Len(socks), u \in ChatPayloads : onChatsUpdate(h, u) /\ UNCHANGED surface
  \/ \E h \in 1..Len(socks), c \in ContactPayloads : onContactsUpsert(h, c) /\ UNCHANGED surface
  \/ \E h \in 1..Len(socks), jid \in Jids, ts \in {Absent, Num(1), Num(2)}, pushName \in {"", "Ann"} :
       onMessagesUpsert(h, Message(jid, ts, pushName, NoMedia))

SpecStore == InitLoaded /\ [][NextStore]_vars

\* Inbound messages with and without attachments, and their webhooks.
NextInbound ==
  \/ \E h \in 1..Len(socks), ts \in {Absent, Num(1), Num(2)},
        media \in {NoMedia, Media(ImagePng), Media(ImageJpeg), Media(AppZip), Media(<<>>)} :
       onMessagesUpsert(h, Message(<<"4", "1", "7", "6", "0", "@", "s">>, ts, "", media))
  \/ \E h \in 1..Len(socks), first \in {NoMedia, Media(ImagePng)}, fromMe \in BOOLEAN :
       LET jid == <<"4", "1", "7", "6", "0", "@", "s">>
           m1 == Message(jid, Num(1), "", first)
           m2 == Message(jid, Num(2), "", NoMedia)
       IN messagesUpsert(h, <<IF fromMe THEN FromMe(m1) ELSE m1, m2>>)
  \/ \E n \in 1..Len(inbox), ok \in BOOLEAN : MediaSettles(n, ok)

SpecInbound == InitLoaded /\ [][NextInbound]_vars

\* ---- sends and their echoes -----------------------------------------------------------
\* The transport reports a message the account has sent through a handle as
\* a messages.upsert event of that handle with key.fromMe set (Baileys emits
\* its own events), once per sendMessage call.
Echoes == {n \in 1..Len(inbox) : inbox[n].msg.fromMe}
onEcho ==
  /\ Cardinality(Echoes) < Len(wire)
  /\ LET call == wire[Cardinality(Echoes) + 1]
     IN onMessagesUpsert(call.h, FromMe(Message(call.jid, Num(1), "", NoMedia)))

\* Sends to a loaded session, and the echoes of the transport.
NextEcho ==
  \/ \E id \in Ids : PostMessages(id, TRUE, WellFormed.to, WellFormed.text)
  \/ \E n \in 1..Len(replies), ok \in BOOLEAN : SendSettles(n, ok)
  \/ \E n \in 1..Len(replies), outcome \in FetchOutcomes \cup {"none"} : SendFinish(n, outcome)
  \/ onEcho

SpecEcho == InitLoaded /\ [][NextEcho]_vars

\* ---- pairing challenges ---------------------------------------------------------------
\* onConnectionUpdate with u.qr (index.ts:1406-1413; revision A 331-339), up
\* to its await: the text of the challenge is stored, then the handler waits
\* for QRCode.toDataURL.  A handle issues challenges until it opens.
onQr(h) ==
  /\ Listening(h)
  /\ socks[h].phase = "init"
  /\ CanSuspend
  /\ objs' = [objs EXCEPT ![socks[h].obj].qr_text = TRUE]
  /\ tasks' = Suspend(Task("qr", socks[h].id, socks[h].obj, "none"))
  /\ UNCHANGED <<rev, hookSet, sessions, socks, creds, posts, used, logoutResult>>

\* QRCode.toDataURL has returned the image (ok) or thrown: s.qr = the image,
\* or null.  The update carried no connection, so the handler ends there.
QrSettles(o, ok) ==
  /\ o \in 1..Len(objs)
  /\ BagIn(Task("qr", objs[o].id, o, "none"), tasks)
  /\ objs' = [objs EXCEPT ![o].qr = ok]
  /\ tasks' = Resume(Task("qr", objs[o].id, o, "none"))
  /\ UNCHANGED <<rev, hookSet, sessions, socks, creds, posts, used, logoutResult>>

\* A session just created, not yet paired.
InitPairing ==
  /\ rev \in Revisions
  /\ hookSet \in BOOLEAN
  /\ (rev = "A" => hookSet = FALSE)
  /\ sessions = [i \in Ids |-> 1]
  /\ objs = <<NewSession("s1", 1, hookSet, IF rev = "C" THEN randomBytes(1) ELSE "")>>
  /\ socks = <<makeWASocket("s1", 1)>>
  /\ creds = [i \in Ids |-> "empty"]
  /\ used = Ids
  /\ tasks = EmptyBag
  /\ posts = [i \in Ids |-> <<>>]
  /\ logoutResult = [i \in Ids |-> ""]
  /\ apiKeySet = FALSE
  /\ replies = <<>>
  /\ wire = <<>>
  /\ now = 0
  /\ page = <<>>
  /\ inbox = <<>>
  /\ walk = NoWalk

\* Pairing: challenges, their images, the credentials, 'open', 'close', and
\* the restarts a close may start.
NextPairing ==
  \/ \E h \in 1..Len(socks) : onQr(h) /\ UNCHANGED surface
  \/ \E o \in 1..Len(objs), ok \in BOOLEAN : QrSettles(o, ok) /\ UNCHANGED surface
  \/ \E h \in 1..Len(socks) : onCredsUpdate(h) /\ UNCHANGED surface
  \/ \E h \in 1..Len(socks), me \in SelfIds \cup {<<>>} : onOpen(h, me) /\ UNCHANGED surface
  \/ \E h \in 1..Len(socks), code \in Codes : onClose(h, code) /\ UNCHANGED surface
  \/ \E id \in Ids : BuildResume(id, "none") /\ UNCHANGED surface
  \/ \E o \in 1..Len(objs) : RestartResume(o, "auto") /\ UNCHANGED surface
  \/ \E id \in Ids, key \in BOOLEAN : GetStatus(id, key)

SpecPairing == InitPairing /\ [][NextPairing]_vars

\* ---- one logout and the transport's answer ----------------------------------------------
\* logouts of id that are under way
LogoutsOf(id) == {t \in TaskSet : t.id = id /\ t.k \in {"logoutCall", "logoutHook"}}

\* the transport answers s.sock.logout() on handle h by reporting 'close'
\* with the revoked-credentials code, while the route still waits
onLogoutClose(h) ==
  /\ h \in 1..Len(socks)
  /\ BagIn(Task("logoutCall", socks[h].id, socks[h].obj, "none"), tasks)
  /\ objs[socks[h].obj].sock = h
  /\ onClose(h, loggedOut)

\* A loaded session connects and is logged out once (revision C).
NextLogout ==
  \/ \E h \in 1..Len(socks) : onCredsUpdate(h) /\ UNCHANGED surface
  \/ \E h \in 1..Len(socks), me \in SelfIds \cup {<<>>} : onOpen(h, me) /\ UNCHANGED surface
  \/ \E id \in Ids : LogoutsOf(id) = {} /\ Logout(id) /\ UNCHANGED surface
  \/ \E h \in 1..Len(socks) : onLogoutClose(h) /\ UNCHANGED surface
  \/ \E o \in 1..Len(objs), outcome \in LogoutOutcomes : LogoutCallResume(o, outcome) /\ UNCHANGED surface
  \/ \E o \in 1..Len(objs), outcome \in LogoutOutcomes \cup {"noCall"} : LogoutFinish(o, outcome) /\ UNCHANGED surface

SpecLogout == InitPairing /\ [][NextLogout]_vars

\* ---- restarts under suspended handlers -------------------------------------------------
\* A loaded session receives messages with attachments, whose handlers wait
\* for the download, and is restarted meanwhile.
NextStale ==
  \/ \E h \in 1..Len(socks), media \in {NoMedia, Media(ImagePng)} :
       onMessagesUpsert(h, Message(<<"4", "1", "7", "6", "0", "@", "s">>, Num(1), "Ann", media))
  \/ \E n \in 1..Len(inbox), ok \in BOOLEAN : MediaSettles(n, ok)
  \/ \E id \in Ids : HttpRestart(id) /\ UNCHANGED surface
  \/ \E h \in 1..Len(socks), code \in Codes : onClose(h, code) /\ UNCHANGED surface
  \/ \E id \in Ids : BuildResume(id, "none") /\ UNCHANGED surface
  \/ \E o \in 1..Len(objs), origin \in {"http", "auto"} : RestartResume(o, origin) /\ UNCHANGED surface

SpecStale == InitLoaded /\ [][NextStale]_vars

\* ---- restarts of a loaded session -------------------------------------------------
\* A loaded session that receives messages, gets a webhook registered
\* (revision A) and is restarted, by the restart route or by the transport
\* closing with restartRequired; every suspended build here is a restart's.
NextRestart ==
  \/ \E id \in Ids, secret \in RegisteredSecrets :
       Loaded(id) /\ RegisterWebhook(id, secret) /\ UNCHANGED surface
  \/ \E h \in 1..Len(socks) :
       onMessagesUpsert(h, Message(<<"4", "1", "7", "6", "0", "@", "s">>, Num(1), "Ann", NoMedia))
  \/ \E id \in Ids : HttpRestart(id) /\ UNCHANGED surface
  \/ \E h \in 1..Len(socks), code \in Codes : onClose(h, code) /\ UNCHANGED surface
  \/ \E id \in Ids : BuildResume(id, "none") /\ UNCHANGED surface
  \/ \E o \in 1..Len(objs), origin \in {"http", "auto"} : RestartResume(o, origin) /\ UNCHANGED surface
  \/ \E t \in TaskSet : AwaitFails(t) /\ UNCHANGED surface

SpecRestart == InitLoaded /\ [][NextRestart]_vars

\* ---- properties ----------------------------------------------------------
\* this step is the transport's "close" report with status `code` on handle h
CloseStep(h, code) ==
  /\ socks[h].phase # "closed"
  /\ socks'[h].phase = "closed"
  /\ socks'[h].code = code

\* the invocation onConnectionUpdate leaves suspended when it restarts id
AutoRestartTask(id) ==
  IF rev = "C" THEN Task("restart", id, sessions[id], "auto") ELSE Task("build", id, 0, "none")

\* restartSession(id) invocations suspended between teardown and installation
RestartsInProgress(id) ==
  BagCardinality([t \in {u \in TaskSet : u.k = "restart" /\ u.id = id} |-> tasks[t]])

\* this step is the end of the POST /sessions/:id/logout that was suspended
\* as t; LogoutOf(id): of some logout of id
LogoutCompletes(t) == t.k = "logoutHook" /\ CopiesIn(t, tasks') < CopiesIn(t, tasks)
LogoutOf(id) == \E t \in TaskSet : t.id = id /\ LogoutCompletes(t)

\* whether sendWebhookEvent has a target for session object s
Configured(s) == IF rev = "C" THEN hookSet ELSE s.webhookUrl

\* positions of the session.created calls in the log of id
CreatedAt(id) == {i \in 1..Len(posts[id]) : posts[id][i].event = "session.created"}

\* C1: for every session id, at most one transport handle that has been built
\* and not yet torn down exists at any time.
C1_AtMostOneLiveHandle == \A id \in Ids : Cardinality(Live(id)) <= 1

\* C2: a "close" report with the restart-required code publishes nothing (so
\* no session.disconnected, and the session is not marked logged out), and
\* when the gateway knows the session it tears down the handle the session
\* holds and leaves a restart of the session in progress.
C2_TransientCloseRestarts ==
  [][\A h \in 1..Len(socks) : CloseStep(h, restartRequired) =>
        LET id == socks[h].id
            old == sessions[id]
        IN /\ posts' = posts
           /\ (rev = "A" \/ old # 0) =>
                /\ tasks' = tasks (+) SetToBag({AutoRestartTask(id)})
                /\ (old # 0 /\ objs[old].sock # 0) =>
                     /\ ~socks'[objs[old].sock].open
                     /\ ~socks'[objs[old].sock].listening]_vars

C2_Witness ==
  \E h \in 1..Len(socks) :
    /\ socks[h].code = restartRequired
    /\ ~socks[h].open
    /\ BagIn(Task("restart", socks[h].id, socks[h].obj, "auto"), tasks)

\* C3: a "close" report with the revoked-credentials code clears the
\* session's connected flag, makes exactly one sendWebhookEvent call, for
\* session.disconnected with reason loggedOut, which is posted when a webhook
\* target is configured, and starts no restart: no invocation is suspended,
\* no handle is built or torn down.  An automatic restart is only ever
\* started by a "close" report with the restart-required code.
C3_RevokedCloseLogsOut ==
  [][/\ \A h \in 1..Len(socks) : CloseStep(h, loggedOut) =>
          LET id == socks[h].id
              o == socks[h].obj
              n == Len(posts[id])
          IN /\ ~objs'[o].connected
             /\ Len(posts'[id]) = n + 1
             /\ SubSeq(posts'[id], 1, n) = posts[id]
             /\ posts'[id][n + 1].event = "session.disconnected"
             /\ posts'[id][n + 1].data.reason = "loggedOut"
             /\ posts'[id][n + 1].sent = Configured(objs[o])
             /\ tasks' = tasks
             /\ Len(socks') = Len(socks)
             /\ \A g \in 1..Len(socks) : socks'[g].open = socks[g].open
     /\ \A t \in DOMAIN tasks' :
          (t.x = "auto" /\ CopiesIn(t, tasks') > CopiesIn(t, tasks)) =>
             \E h \in 1..Len(socks) : CloseStep(h, restartRequired)]_vars

C3_Witness ==
  \E h \in 1..Len(socks) :
    /\ socks[h].code = loggedOut
    /\ ~objs[socks[h].obj].connected
    /\ \E i \in 1..Len(posts[socks[h].id]) :
         /\ posts[socks[h].id][i].sent
         /\ posts[socks[h].id][i].data.reason = "loggedOut"

C5_HeaderIsDigestOfBody ==
  \A id \in Ids : \A i \in 1..Len(posts[id]) :
    LET e == posts[id][i]
    IN e.sent => /\ e.hdr.kind = "hmac"
                 /\ e.hdr.over = e.body
                 /\ e.hdr # Raw(e.hdr.key)

C8_RestartsSerialized == \A id \in Ids : RestartsInProgress(id) <= 1

\* C9: after a "close" report with a code other than revoked credentials the
\* session is never left on its old handle: the handle a known session holds
\* is never one that is closed with such a code and not torn down.
C9_RecoverableCloseRestarts ==
  \A id \in Ids :
    (sessions[id] # 0 /\ objs[sessions[id]].sock # 0) =>
      LET h == objs[sessions[id]].sock
      IN ~(socks[h].open /\ socks[h].phase = "closed" /\ socks[h].code # loggedOut)

\* C10 as stated: no step but the completion of a logout takes stored
\* credentials away or back to the unpaired state.
C10_RestartIsSoft ==
  [][\A id \in Ids :
       (creds[id] = "paired" /\ creds'[id] # "paired") => LogoutOf(id)]_vars

\* C10: an automatic restart never deletes or resets the stored credentials,
\* and neither does the HTTP restart of the revision that has a logout route;
\* in the earlier revision the HTTP restart route deletes them and the
\* rebuild recreates an empty store.  Paired credentials are otherwise lost
\* only when a logout completes.
C10_RestartIsSoftButForcedRestartOfA ==
  [][\A id \in Ids :
       /\ (\E h \in 1..Len(socks) : socks[h].id = id /\ CloseStep(h, restartRequired)) =>
             creds'[id] = creds[id]
       /\ (creds[id] = "paired" /\ creds'[id] # "paired") =>
             \/ LogoutOf(id) /\ creds'[id] = "absent"
             \/ /\ rev = "A"
                /\ creds'[id] = "empty"
                /\ tasks' = tasks (+) SetToBag({Task("build", id, 0, "none")})
       /\ (rev = "C" /\ RestartsInProgress(id)' > RestartsInProgress(id)) =>
             creds'[id] = creds[id]]_vars

C10_Witness ==
  \E id \in Ids :
    /\ rev = "C"
    /\ creds[id] = "paired"
    /\ BagIn(Task("restart", id, sessions[id], "http"), tasks)

\* this step is a suspended restartSession ending at a rejected await: its
\* invocation leaves the bag and no handle is built
RestartFails(t) ==
  /\ t.k = "restart"
  /\ CopiesIn(t, tasks') < CopiesIn(t, tasks)
  /\ Len(socks') = Len(socks)

\* C11: when the credential reload or the handle construction of a restart
\* fails, the session is absent from the session directory afterwards.
C11_FailedRestartLeavesAbsent ==
  [][\A t \in TaskSet : RestartFails(t) => sessions'[t.id] = 0]_vars

\* the account part of a jid: the characters before the first ':' or '@'
AccountPart(jid) ==
  LET stops == {i \in 1..Len(jid) : jid[i] \in {":", "@"}}
  IN IF stops = {} THEN jid
     ELSE SubSeq(jid, 1, (CHOOSE i \in stops : \A j \in stops : i <= j) - 1)

\* C12: once an 'open' report has carried a self id, the status of the
\* session shows phoneNumber equal to the account part of that self id.
C12_StatusShowsAccountPart ==
  \A n \in 1..Len(replies) :
    (replies[n].route = "status" /\ replies[n].code = 200 /\ replies[n].meId # <<>>) =>
       replies[n].phoneNumber = AccountPart(replies[n].meId)

\* C17: a session-addressed request that carries the key and names an id the
\* session directory does not hold is answered 404 at once and creates no
\* session, no handle and no credential store.
C17_UnknownIdIs404 ==
  [][Len(replies') > Len(replies) =>
       LET r == replies'[Len(replies')]
       IN (sessions[r.id] = 0 /\ ~unauthorized(r.key)) =>
             /\ r.code = 404
             /\ UNCHANGED <<sessions, objs, socks, creds, tasks>>]_vars

\* ---- outbound sends: properties ---------------------------------------------
\* the route of request n publishes message.out / its publication settles
PublishStep(n) == replies[n].hook = "" /\ replies'[n].hook = "pending"
HookSettles(n) == replies[n].hook = "pending" /\ replies'[n].hook # "pending"

C14_SendsInArrivalOrder ==
  \A i, j \in 1..Len(wire) : i < j => wire[i].req < wire[j].req

\* the cap of sends per rolling window of Window minutes that the service
\* description asks for; the routes hold no such number
PerMinuteCap == 1
Window == 1

\* C15: no dispatch is the (PerMinuteCap+1)-th of its one-minute window.
C15_CapHolds ==
  \A j \in 1..Len(wire) :
    Cardinality({i \in 1..j : wire[j].at - wire[i].at < Window}) <= PerMinuteCap

\* the dispatch attempts of request n, and the requests that passed the key
\* check and the readiness check
Attempts(n) == {i \in 1..Len(wire) : wire[i].req = n}
Accepted(n) ==
  /\ replies[n].route = "messages"
  /\ replies[n].code \notin {400, 401}
  /\ ~BagIn(Task("build", replies[n].id, 0, ReqTag(n)), tasks)
MessageOutAt(id) == {i \in 1..Len(posts[id]) : posts[id][i].event = "message.out"}

\* C16: an accepted send is attempted at the transport exactly once, a send
\* that is not accepted never; an attempt that threw publishes no message.out,
\* and message.out is published once per attempt that returned.
C16_OneAttemptNoRetry ==
  /\ \A n \in 1..Len(replies) :
       /\ Cardinality(Attempts(n)) = IF Accepted(n) THEN 1 ELSE 0
       /\ replies[n].attempt = "threw" => replies[n].hook = ""
  /\ \A id \in Ids :
       Cardinality(MessageOutAt(id)) =
         Cardinality({n \in 1..Len(replies) : replies[n].id = id /\ replies[n].attempt = "returned"})

\* an attempt threw, and its request is over with one attempt and no webhook
C16_Witness ==
  \E n \in 1..Len(replies) :
    /\ replies[n].attempt = "threw"
    /\ replies[n].code = 500
    /\ Cardinality(Attempts(n)) = 1
    /\ MessageOutAt(replies[n].id) = {}

\* a send request with no destination, no digit in its destination, or no text
Malformed(r) == r.route = "messages" /\ (cleanTo(r.to) = <<>> \/ r.text = "")

\* C19: a malformed send request that passes the key check is answered 400 on
\* arrival, and nothing is ever dispatched for it.
C19_MalformedIs400 ==
  [][/\ Len(replies') > Len(replies) =>
          LET r == replies'[Len(replies')]
          IN (Malformed(r) /\ ~unauthorized(r.key)) => r.code = 400
     /\ \A i \in 1..Len(wire') : ~Malformed(replies'[wire'[i].req])]_vars

\* ---- control surface and chat listing: properties --------------------------
\* C18: when an API key is configured, a request without the valid key is
\* answered 401 whatever the state of the session it names, and changes no
\* session state and makes no transport call.
C18_NoKeyIs401 ==
  [][Len(replies') > Len(replies) =>
       LET r == replies'[Len(replies')]
       IN unauthorized(r.key) => (r.code = 401 /\ UNCHANGED <<supervisor, wire>>)]_vars

\* the last listing served, the store it was taken from, and the chats of
\* that store a cursor b lets through
Listed == Len(page) = 1
ListedStore == objs[page[1].o].chats
Before(store, b) == {i \in 1..Len(store) : lastTsMs(store[i]) < b.v}
Eligible(store, b) ==
  IF b.k = "num" /\ b.v > 0 THEN Before(store, b) ELSE 1..Len(store)
Least(a, b) == IF a < b THEN a ELSE b

\* how many of m eligible chats a listing returns
Quota(limit, m) ==
  IF limit.k = "absent" THEN Least(DefaultLimit, m)
  ELSE IF limit.k = "nan" THEN 0
  ELSE IF limit.v < 0 THEN (IF m + limit.v < 0 THEN 0 ELSE m + limit.v)
  ELSE Least(Least(limit.v, MaxLimit), m)

\* chats is a listing of `count` of the chats `among` of the store: distinct
\* chats of `among`, latest first, none left out that is later than one
\* listed, and the cursor that follows is the timestamp of the last one
IsListing(body, store, among, count) ==
  LET chats == body.chats
  IN /\ Len(chats) = count
     /\ \A k \in 1..Len(chats) :
          \E i \in among : /\ store[i].jid = chats[k].chatJid
                           /\ lastTsMs(store[i]) = chats[k].lastTsMs
     /\ \A k, l \in 1..Len(chats) :
          k < l => /\ chats[k].chatJid # chats[l].chatJid
                   /\ chats[k].lastTsMs >= chats[l].lastTsMs
     /\ \A i \in among :
          (\A k \in 1..Len(chats) : chats[k].chatJid # store[i].jid) =>
             \A k \in 1..Len(chats) : chats[k].lastTsMs >= lastTsMs(store[i])
     /\ body.nextBeforeTs = IF Len(chats) > 0 THEN Num(chats[Len(chats)].lastTsMs)
                            ELSE [k |-> "null"]

C21_NullCursorWhenExhausted ==
  (Listed /\ page[1].limit.k = "num" /\ page[1].limit.v > 0) =>
    LET among == Eligible(ListedStore, page[1].beforeTs)
    IN (page[1].body.nextBeforeTs.k = "null") <=> (Len(page[1].body.chats) = Cardinality(among))

\* ---- chat store and inbound messages: properties -----------------------------
\* the chat of jid in the store of session object o, if it is there
Has(ob, o, jid) == \E i \in 1..Len(ob[o].chats) : ob[o].chats[i].jid = jid
ChatIn(ob, o, jid) == chatOf(ob[o].chats, jid)

\* C22: once a chat has a known name, no chat, contact or message event
\* replaces it with an unknown one.
C22_KnownNameKept ==
  [][\A o \in 1..Len(objs), jid \in Jids :
       (Has(objs, o, jid) /\ ChatIn(objs, o, jid).name # "") =>
          (Has(objs', o, jid) /\ ChatIn(objs', o, jid).name # "")]_vars

\* C23: the stored timestamp of a chat never decreases, whatever messages and
\* chat events arrive and in whatever order.
C23_TimestampMonotonic ==
  [][\A o \in 1..Len(objs), jid \in Jids :
       Has(objs, o, jid) =>
          (Has(objs', o, jid) /\ ChatIn(objs', o, jid).ts >= ChatIn(objs, o, jid).ts)]_vars

\* the positions, in the log of id, of the webhook of the n-th message
WebhookOf(id, n) ==
  {i \in 1..Len(posts[id]) :
     /\ posts[id][i].event \in {"message.in", "message.out"}
     /\ "msg" \in DOMAIN posts[id][i].data
     /\ posts[id][i].data.msg = n}

\* C25: the webhooks of the inbound messages of a session are published in
\* the order in which the messages were delivered.
C25_InboundInDeliveryOrder ==
  \A id \in Ids : \A i, j \in 1..Len(posts[id]) :
    (i < j /\ posts[id][i].event = "message.in" /\ posts[id][j].event = "message.in") =>
       posts[id][i].data.msg < posts[id][j].data.msg

\* C26: a message whose attachment could not be downloaded has its webhook
\* published all the same, with media null.
C26_FailedDownloadStillPublished ==
  \A n \in 1..Len(inbox) :
    inbox[n].state = "failed" =>
      \E i \in WebhookOf(socks[inbox[n].h].id, n) :
        posts[socks[inbox[n].h].id][i].data.media = Null

\* the extension the service description gives a declared type
ExpectedExt(mimetype) ==
  IF mimetype = ImagePng THEN <<"p", "n", "g">>
  ELSE IF mimetype \in {<<>>, AppZip} THEN <<"b", "i", "n">>
  ELSE <<>>
EndsWith(str, tail) ==
  Len(str) >= Len(tail) /\ SubSeq(str, Len(str) - Len(tail) + 1, Len(str)) = tail

\* C27: the descriptor published for an attachment has a filename that ends
\* with the extension of its declared type (.png for image/png, the generic
\* .bin for a missing or unrecognised type), and its URL is the public base
\* URL, the media path and that filename.
C27_DescriptorFollowsMime ==
  \A n \in 1..Len(inbox) : \A i \in WebhookOf(socks[inbox[n].h].id, n) :
    LET d == posts[socks[inbox[n].h].id][i].data.media
        mimetype == inbox[n].msg.media.mimetype
    IN d # Null =>
         /\ inbox[n].msg.media.k = "media"
         /\ ExpectedExt(mimetype) # <<>> => EndsWith(d.filename, <<".">> \o ExpectedExt(mimetype))
         /\ d.url = PUBLIC_BASE_URL \o <<"/", "m", "e", "d", "i", "a", "/">> \o d.filename

\* the webhook of an image/png attachment has been published
C27_Witness ==
  \E n \in 1..Len(inbox) : \E i \in WebhookOf(socks[inbox[n].h].id, n) :
    /\ inbox[n].msg.media = Media(ImagePng)
    /\ posts[socks[inbox[n].h].id][i].data.media # Null

\* ---- message history: properties ------------------------------------------------
\* the last page served is a page of messages
Shaped == page # <<>> /\ "rawMsgs" \in DOMAIN page[1]

\* the oldest message of a page: one with the smallest timestamp
Oldest(messages) ==
  {i \in 1..Len(messages) : \A j \in 1..Len(messages) :
      messages[i].timestampMs <= messages[j].timestampMs}

\* C24: the next cursor of a page of messages names the oldest message of the
\* page (the one with the smallest timestamp), in whatever order the transport
\* returned the messages, and an empty fetch gives an empty page with a null
\* cursor.
C24_CursorFromOldest ==
  Shaped =>
    LET b == page[1].body
    IN IF Len(page[1].rawMsgs) = 0
       THEN b.messages = <<>> /\ b.nextCursor.k = "null"
       ELSE /\ b.nextCursor.k = "cursor"
            /\ \E i \in Oldest(b.messages) :
                  /\ b.nextCursor.beforeId = b.messages[i].messageId
                  /\ b.nextCursor.beforeFromMe = b.messages[i].fromMe

\* ---- restarts: properties ----------------------------------------------------------
\* in this step a suspended restart of session id builds its new handle
RestartCompletes(id) ==
  \E t \in TaskSet :
    /\ t.id = id /\ t.k \in {"build", "restart"}
    /\ tasks' = Resume(t)
    /\ Len(socks') = Len(socks) + 1

\* C28: a restart, forced over HTTP or automatic, preserves the session's
\* webhook target, its secret and its conversation index: the session the
\* directory holds for the id after the restart has the values the session had
\* before it.
C28_RestartPreserves ==
  [][\A id \in Ids :
       (RestartCompletes(id) /\ sessions[id] # 0) =>
         /\ sessions'[id] # 0
         /\ objs'[sessions'[id]].webhookUrl = objs[sessions[id]].webhookUrl
         /\ objs'[sessions'[id]].webhookSecret = objs[sessions[id]].webhookSecret
         /\ objs'[sessions'[id]].chats = objs[sessions[id]].chats]_vars

\* ---- logout against a suspended restart: properties -----------------------------------
\* C29: once a logout of a session id has completed, no live transport
\* handle exists for that id, also when a restart of the id was suspended
\* between tearing down the old handle and building the new one while the
\* logout ran.
C29_NoHandleAfterLogout ==
  \A id \in Ids : logoutResult[id] # "" => Live(id) = {}

\* ---- pairing: properties ---------------------------------------------------------------
\* C30: whenever the status of a session reports connected = true, its pairing
\* payload is null: qr and qr_text of the session the directory holds, which
\* GET /sessions/:id reads in one step, are both unset while connected is
\* set, in every interleaving of challenge and 'open' events.
C30_ConnectedHasNoPairingPayload ==
  \A id \in Ids :
    (sessions[id] # 0 /\ objs[sessions[id]].connected) =>
      (~objs[sessions[id]].qr /\ ~objs[sessions[id]].qr_text)

\* ---- chat listing: further properties ---------------------------------------------
\* C37: a listing never holds more than min(limit, 50) chats, whatever limit
\* the request carries (20 when it carries none); a limit that is not a number
\* allows none.
C37_PageWithinLimit ==
  Listed =>
    LET l == page[1].limit
        cap == IF l.k = "absent" THEN Least(DefaultLimit, MaxLimit)
               ELSE IF l.k = "nan" THEN 0
               ELSE Least(l.v, MaxLimit)
    IN Len(page[1].body.chats) <= cap

\* C36: a pagination that starts without cursor and follows every returned
\* cursor up to an empty page has been given every chat of the store exactly
\* once, also when chats share a timestamp or have timestamp 0.
C36_WalkVisitsEachOnce ==
  walk.done =>
    LET store == objs[sessions["s1"]].chats
    IN /\ Len(walk.seen) = Len(store)
       /\ \A i \in 1..Len(store) : \E k \in 1..Len(walk.seen) : walk.seen[k] = store[i].jid

\* ---- webhook registration: properties -----------------------------------------------
\* in this step registration n is answered with `code`
Answered(n, code) ==
  /\ n \in 1..Len(replies')
  /\ replies'[n].route = "webhook"
  /\ replies'[n].code = code
  /\ n \in 1..Len(replies) => replies[n].code = 0

\* the session object the handler of registration n works on when it answers:
\* the one the directory held when the request came or, after a load, the
\* one its own buildSessionSocket has just built
HeldBy(n) == IF n \in 1..Len(replies) THEN Len(objs') ELSE sessions[replies'[n].id]
\* the webhook target and secret of object o
HookOf(ob, o) == <<ob[o].webhookUrl, ob[o].webhookSecret>>
\* target and secret of that object when the handler got it: no target and
\* no secret on an object just built
HookBefore(n) ==
  IF n \in 1..Len(replies) THEN <<FALSE, "">> ELSE HookOf(objs, HeldBy(n))

\* C38: a registration without url is answered 400 and leaves the webhook URL
\* and secret of its session unchanged; one with a url and no secret replaces
\* the URL and leaves the stored secret unchanged.  The session is the object
\* the handler holds; that a load may replace the directory's entry for the
\* id is the matter of C1 and C28.
C38_RegistrationValidated ==
  [][\A n \in 1..Len(replies') :
       /\ (Answered(n, 200) \/ Answered(n, 400)) =>
             (replies'[n].code = 400 <=> ~replies'[n].url)
       /\ Answered(n, 400) => HookOf(objs', HeldBy(n)) = HookBefore(n)
       /\ (Answered(n, 200) /\ replies'[n].secret = "") =>
             HookOf(objs', HeldBy(n)) = <<TRUE, HookBefore(n)[2]>>]_vars

\* a registration without url, carrying a secret, was answered 400 after one
\* with url and secret, and the session still has that target and secret
C38_Witness ==
  /\ Len(replies) = 2
  /\ replies[1].route = "webhook" /\ replies[1].code = 200 /\ replies[1].secret # ""
  /\ replies[2].route = "webhook" /\ replies[2].code = 400 /\ replies[2].secret # ""
  /\ sessions["s1"] # 0
  /\ HookOf(objs, sessions["s1"]) = <<TRUE, replies[1].secret>>

\* ---- inbound messages: further properties ---------------------------------------------
\* C35: every message the transport delivers yields exactly one message
\* webhook (message.in or message.out) once its handling is over, each
\* message of an event that delivers several included.
C35_OneWebhookPerMessage ==
  \A n \in 1..Len(inbox) :
    inbox[n].state # "downloading" =>
      Cardinality(WebhookOf(socks[inbox[n].h].id, n)) = 1

\* the greater of two numbers
Greatest(a, b) == IF a > b THEN a ELSE b

\* C39 (revision A): once a delivered message is recorded, the lastTsMs of
\* its chat is a timestamp in milliseconds: the message's timestamp in
\* seconds times 1000, or the current time in milliseconds for a message
\* without timestamp (or the later value the chat already had), and never
\* later than the current time in milliseconds.
C39_LastTsIsMilliseconds ==
  [][(rev = "A" /\ Len(inbox') > Len(inbox)) =>
       LET rec == inbox'[Len(inbox) + 1]
           o == socks[rec.h].obj
           ms == IF rec.msg.ts.k = "num" THEN rec.msg.ts.v * 1000 ELSE DateNow
           had == IF Has(objs, o, rec.msg.jid) THEN ChatIn(objs, o, rec.msg.jid).ts ELSE 0
       IN /\ Has(objs', o, rec.msg.jid)
          /\ ChatIn(objs', o, rec.msg.jid).ts = Greatest(had, ms)
          /\ ChatIn(objs', o, rec.msg.jid).ts <= DateNow]_vars

\* ---- outbound sends: further properties -----------------------------------------------
\* C34: a send reaches the transport only while its session is connected: a
\* request for a session that awaits its pairing scan, is logged out or is
\* being restarted is answered 'session not ready' and calls no sendMessage.
C34_SendOnlyWhileConnected ==
  [][Len(wire') > Len(wire) =>
       LET call == wire'[Len(wire')]
       IN objs'[socks'[call.h].obj].connected]_vars

\* the sendMessage calls made for session id
CallsFor(id) == {i \in 1..Len(wire) : socks[wire[i].h].id = id}

\* C33: a send asked for over HTTP gives one message.out webhook, also when
\* the transport echoes the message as a delivered message sent by self: a
\* session never has more message.out webhooks than sends.
C33_OneMessageOutPerSend ==
  \A id \in Ids : Cardinality(MessageOutAt(id)) <= Cardinality(CallsFor(id))

\* ---- logout: further properties ---------------------------------------------------------
\* positions of the session.disconnected calls in the log of id
DisconnectedAt(id) == {i \in 1..Len(posts[id]) : posts[id][i].event = "session.disconnected"}

\* C32: the one logout of a session publishes one session.disconnected, also
\* when the transport answers the logout call with a 'close' report carrying
\* the revoked-credentials code before the listeners are removed: the log of
\* the session never holds a second one.
C32_OneDisconnectedPerLogout ==
  \A id \in Ids : Cardinality(DisconnectedAt(id)) <= 1

\* ---- restarts under suspended handlers: properties ---------------------------------------
\* in this step the handler of the n-th delivered message, suspended in its
\* download, goes on or ends
HandlerResumes(n) == inbox[n].state = "downloading" /\ inbox'[n].state # "downloading"

\* C31: once a restart has torn down the old handle of a session, no handler
\* invocation that was started for that handle changes a session's state or
\* publishes a webhook: a message handler that resumes after the teardown of
\* its handle leaves every session object and every webhook log as it was.
C31_StaleHandlersInert ==
  [][\A n \in 1..Len(inbox) :
       (HandlerResumes(n) /\ ~socks[inbox[n].h].listening) =>
          (objs' = objs /\ posts' = posts)]_vars

====
